---- MODULE Spec2Model ----
(***************************************************************************)
(* Connection / capability resolution and multi-product dispatch layer of  *)
(* the InfluxDB 3 MCP server: BaseConnectionService, HttpClientService,    *)
(* DatabaseManagementService and SchemaManagementService.                  *)
(*                                                                         *)
(* Strings are sequences of one-character (or one-token) strings, so that  *)
(* concatenation, trim(), replace(/\/$/, "") and includes() are computed,  *)
(* not assumed.  A JavaScript `undefined` is the value Undefined.          *)
(***************************************************************************)
EXTENDS Naturals, Sequences, FiniteSets

VARIABLES config, probe, pc, call, vi, client, stage, locals, pending, log,
          result, steps, backend, flights

vars == <<config, probe, pc, call, vi, client, stage, locals, pending, log,
          result, steps, backend, flights>>

callVars == <<pc, call, vi, client, stage, locals, pending, log, result, steps>>

(***************************************************************************)
(* Bounds                                                                  *)
(***************************************************************************)
MaxStrLen == 2

\* the largest retention, in seconds, of the contiguous range of retentions
MaxSeconds == 3

(***************************************************************************)
(* Values                                                                  *)
(***************************************************************************)
Undefined == <<"@undefined">>

Core == "core"
Enterprise == "enterprise"
CloudDedicated == "cloud-dedicated"
CloudServerless == "cloud-serverless"
Clustered == "clustered"

ProductTypes == {Core, Enterprise, CloudDedicated, CloudServerless, Clustered}

\* every string over the alphabet of length at most n
Strs(alphabet, n) == UNION {[1..k -> alphabet] : k \in 0..n}

\* JavaScript truthiness of a value of type string | undefined
Truthy(v) == v # Undefined /\ v # <<>>

\* `${v}` inside a template literal
Interp(v) == IF v = Undefined THEN <<"undefined">> ELSE v

IsSpace(ch) == ch = " "

RECURSIVE TrimStart(_)
TrimStart(s) ==
    IF s # <<>> /\ IsSpace(Head(s)) THEN TrimStart(Tail(s)) ELSE s

RECURSIVE TrimEnd(_)
TrimEnd(s) ==
    IF s # <<>> /\ IsSpace(s[Len(s)]) THEN TrimEnd(SubSeq(s, 1, Len(s) - 1)) ELSE s

\* String.prototype.trim
Trim(s) == TrimEnd(TrimStart(s))

\* baseURL?.replace(/\/$/, "")
StripTrailingSlash(s) ==
    IF s = Undefined THEN Undefined
    ELSE IF s # <<>> /\ s[Len(s)] = "/" THEN SubSeq(s, 1, Len(s) - 1)
    ELSE s

\* Array.prototype.includes / String.prototype.includes on a token sequence
Includes(s, x) == \E i \in 1..Len(s) : s[i] = x

\* Array.prototype.join
RECURSIVE Join(_, _)
Join(names, sep) ==
    IF names = <<>> THEN <<>>
    ELSE IF Len(names) = 1 THEN <<names[1]>>
    ELSE <<names[1], sep>> \o Join(Tail(names), sep)

(***************************************************************************)
(* Errors: a thrown Error has a message; a transport (axios) error also    *)
(* has a code and, when the backend answered, a response.                  *)
(***************************************************************************)
NoStatus == 0

NoResponse ==
    [status |-> NoStatus, statusText |-> <<>>, hasData |-> FALSE,
     dataMessage |-> Undefined]

NoError == [message |-> <<"@none">>, code |-> "", response |-> NoResponse]

MkError(msg) == [message |-> msg, code |-> "", response |-> NoResponse]

(***************************************************************************)
(* BaseConnectionService: endpoint resolution                              *)
(***************************************************************************)
getDataHost(c) ==
    IF c.type = CloudDedicated /\ Truthy(c.cluster_id)
    THEN <<"https://">> \o c.cluster_id \o <<".a.influxdb.io">>
    ELSE IF c.type = CloudServerless THEN c.url
    ELSE c.url

ConsoleOrigin == <<"https://console.influxdata.com">>

\* mutant: the CloudDedicated management host is built from the cluster id
getManagementHost_ClusterHost(c) ==
    IF c.type = CloudDedicated
    THEN <<"https://">> \o Interp(c.cluster_id) \o <<".a.influxdb.io">>
    ELSE c.url

getManagementHost(c) ==
    IF c.type = CloudDedicated THEN ConsoleOrigin
    ELSE IF c.type = CloudServerless THEN c.url
    ELSE c.url

(***************************************************************************)
(* BaseConnectionService: capability predicates and validators             *)
(***************************************************************************)
\* mutant: CloudDedicated falls through to the url + token rule
isValidConfig_UrlForDedicated(c) == Truthy(c.url) /\ Truthy(c.token)

isValidConfig(c) ==
    IF c.type = CloudDedicated THEN Truthy(c.cluster_id) /\ Truthy(c.token)
    ELSE IF c.type = CloudServerless THEN Truthy(c.url) /\ Truthy(c.token)
    ELSE Truthy(c.url) /\ Truthy(c.token)

hasDataCapabilities(c) == isValidConfig(c)

hasManagementCapabilities(c) ==
    IF c.type = CloudDedicated
    THEN Truthy(c.cluster_id) /\ Truthy(c.account_id) /\ Truthy(c.management_token)
    ELSE IF c.type = Clustered THEN Truthy(c.management_token)
    ELSE IF c.type = CloudServerless THEN Truthy(c.url) /\ Truthy(c.token)
    ELSE Truthy(c.url) /\ Truthy(c.token)

\* the error (or NoError) validateDataCapabilities throws
validateDataCapabilities(c) ==
    IF hasDataCapabilities(c) THEN NoError
    ELSE IF c.type = CloudDedicated THEN
        IF ~Truthy(c.cluster_id)
        THEN MkError(<<"Cloud Dedicated", "data operations require", "cluster_id">>)
        ELSE IF ~Truthy(c.token)
        THEN MkError(<<"Cloud Dedicated", "data operations require", "token">>)
        ELSE NoError
    ELSE IF c.type = CloudServerless THEN
        IF ~Truthy(c.url)
        THEN MkError(<<"Cloud Serverless", "data operations require", "url">>)
        ELSE IF ~Truthy(c.token)
        THEN MkError(<<"Cloud Serverless", "data operations require", "token">>)
        ELSE NoError
    ELSE
        IF ~Truthy(c.url)
        THEN MkError(<<"Core/Enterprise", "data operations require", "url">>)
        ELSE IF ~Truthy(c.token)
        THEN MkError(<<"Core/Enterprise", "data operations require", "token">>)
        ELSE NoError

\* const missing = []; if (!config.x) missing.push("x") ...
MissingManagementFields(c) ==
    (IF ~Truthy(c.cluster_id) THEN <<"cluster_id">> ELSE <<>>)
    \o (IF ~Truthy(c.account_id) THEN <<"account_id">> ELSE <<>>)
    \o (IF ~Truthy(c.management_token) THEN <<"management_token">> ELSE <<>>)

\* the error (or NoError) validateManagementCapabilities throws
validateManagementCapabilities(c) ==
    IF hasManagementCapabilities(c) THEN NoError
    ELSE IF c.type = CloudDedicated \/ c.type = Clustered THEN
        MkError(<<"Cloud Dedicated/Clustered", "management operations require">>
                \o Join(MissingManagementFields(c), ", "))
    ELSE IF c.type = CloudServerless THEN
        IF ~Truthy(c.url)
        THEN MkError(<<"Cloud Serverless", "management operations require", "url">>)
        ELSE IF ~Truthy(c.token)
        THEN MkError(<<"Cloud Serverless", "management operations require", "token">>)
        ELSE NoError
    ELSE
        IF ~Truthy(c.url)
        THEN MkError(<<"Core/Enterprise", "management operations require", "url">>)
        ELSE IF ~Truthy(c.token)
        THEN MkError(<<"Core/Enterprise", "management operations require", "token">>)
        ELSE NoError

\* the display name the switch / conditional chain gives a product type
TypeName(t) ==
    IF t = Core THEN "Core"
    ELSE IF t = Enterprise THEN "Enterprise"
    ELSE IF t = CloudDedicated THEN "Cloud Dedicated"
    ELSE IF t = CloudServerless THEN "Cloud Serverless"
    ELSE IF t = Clustered THEN "Clustered"
    ELSE t

\* supportedTypes.map(type => name)
MapTypeNames(types) == [i \in 1..Len(types) |-> TypeName(types[i])]

\* mutant: only the first supported type is compared with the active type
validateOperationSupport_FirstOnly(c, operation, supportedTypes) ==
    IF supportedTypes = <<>> \/ supportedTypes[1] # c.type
    THEN MkError(<<"Operation", operation, "is not supported for", TypeName(c.type),
                   "Supported types:">>
                 \o Join(MapTypeNames(supportedTypes), ", "))
    ELSE NoError

\* the error (or NoError) validateOperationSupport throws
validateOperationSupport(c, operation, supportedTypes) ==
    IF ~Includes(supportedTypes, c.type)
    THEN MkError(<<"Operation", operation, "is not supported for", TypeName(c.type),
                   "Supported types:">>
                 \o Join(MapTypeNames(supportedTypes), ", "))
    ELSE NoError

(***************************************************************************)
(* HttpClientService: construction                                         *)
(***************************************************************************)
\* mutant: the Bearer scheme for every product type
createAuthHeaders_AlwaysBearer(token, influxType) ==
    IF token # Undefined /\ Truthy(Trim(token))
    THEN <<"Bearer", " ">> \o token
    ELSE Undefined

\* the Authorization header createAuthHeaders sets, Undefined when it sets none
createAuthHeaders(token, influxType) ==
    IF token # Undefined /\ Truthy(Trim(token))
    THEN IF influxType = CloudServerless
         THEN <<"Token", " ">> \o token
         ELSE <<"Bearer", " ">> \o token
    ELSE Undefined

HttpClientService(baseURL, token, influxType) ==
    [baseURL |-> StripTrailingSlash(baseURL),
     Authorization |-> createAuthHeaders(token, influxType)]

createInfluxClient(baseUrl, token, influxType) ==
    HttpClientService(baseUrl, token, influxType)

\* value || ""
OrEmpty(v) == IF Truthy(v) THEN v ELSE <<>>

getInfluxHttpClient(c, forManagement) ==
    LET host == OrEmpty(IF forManagement THEN getManagementHost(c) ELSE getDataHost(c))
        token == IF forManagement /\ (c.type = CloudDedicated \/ c.type = Clustered)
                 THEN OrEmpty(c.management_token)
                 ELSE OrEmpty(c.token)
    IN createInfluxClient(host, token, c.type)

(***************************************************************************)
(* Configurations                                                          *)
(***************************************************************************)
OptStr(alphabet, n) == {Undefined} \cup Strs(alphabet, n)

\* configurations the pure functions are applied to
CapConfigs ==
    [type : ProductTypes,
     url : OptStr({"u", "/"}, MaxStrLen),
     token : OptStr({"t", " "}, MaxStrLen),
     management_token : OptStr({"m"}, 1),
     cluster_id : OptStr({"c"}, 1),
     account_id : OptStr({"a"}, 1)]

\* every field of the configuration is set
AllDefined(c) ==
    \A f \in {"url", "token", "management_token", "cluster_id", "account_id"} :
        c[f] # Undefined

\* configurations the operations run under
DispatchConfigs ==
    [type : ProductTypes,
     url : {Undefined, <<"u", "/">>},
     token : {Undefined, <<" ">>, <<"t">>},
     management_token : {Undefined, <<"m">>},
     cluster_id : {Undefined, <<"c">>},
     account_id : {Undefined, <<"a">>}]

\* the supportedTypes arrays callers pass to validateOperationSupport
SupportedLists ==
    {<<CloudDedicated, CloudServerless, Clustered>>,
     <<CloudServerless>>,
     <<Core, Enterprise>>,
     <<Core, Enterprise, CloudDedicated, CloudServerless, Clustered>>,
     <<>>}

UpdateDatabaseTypes == <<CloudDedicated, CloudServerless, Clustered>>

NoProbe == [fn |-> "none", forManagement |-> FALSE, supported |-> <<>>, out |-> <<>>]

Probe(fn, forManagement, supported, out) ==
    [fn |-> fn, forManagement |-> forManagement, supported |-> supported, out |-> out]

NoClient == [baseURL |-> Undefined, Authorization |-> Undefined]

NoCall == [op |-> "none", name |-> <<>>, schemaName |-> <<>>,
           cfg |-> [present |-> FALSE]]

NoOutcome == [settled |-> FALSE, ok |-> TRUE, error |-> NoError]

NoLocals == [bucket |-> [found |-> FALSE], orgID |-> Undefined,
             measurementId |-> Undefined, data |-> [kind |-> "none"],
             outcome |-> NoOutcome]

NoRequest == [verb |-> "none"]

NoResult == [state |-> "none", value |-> [kind |-> "none"], error |-> NoError]

\* no operation is in flight and no backend is attached
NoFlights ==
    /\ backend = [buckets |-> <<>>, nextId |-> 1]
    /\ flights = <<>>

IdleCall ==
    /\ pc = "idle"
    /\ call = NoCall
    /\ vi = 1
    /\ client = NoClient
    /\ stage = 1
    /\ locals = NoLocals
    /\ pending = NoRequest
    /\ log = <<>>
    /\ result = NoResult
    /\ steps = <<>>

(***************************************************************************)
(* SpecCap: the pure functions of BaseConnectionService applied to every   *)
(* configuration                                                           *)
(***************************************************************************)
InitCap ==
    /\ config \in CapConfigs
    /\ probe = NoProbe
    /\ NoFlights
    /\ IdleCall

ProbeHasDataCapabilities ==
    /\ probe' = Probe("hasDataCapabilities", FALSE, <<>>, hasDataCapabilities(config))
    /\ UNCHANGED <<backend, flights, config, callVars>>

ProbeHasManagementCapabilities ==
    /\ probe' = Probe("hasManagementCapabilities", TRUE, <<>>,
                      hasManagementCapabilities(config))
    /\ UNCHANGED <<backend, flights, config, callVars>>

ProbeValidateDataCapabilities ==
    /\ probe' = Probe("validateDataCapabilities", FALSE, <<>>,
                      validateDataCapabilities(config))
    /\ UNCHANGED <<backend, flights, config, callVars>>

ProbeValidateManagementCapabilities ==
    /\ probe' = Probe("validateManagementCapabilities", TRUE, <<>>,
                      validateManagementCapabilities(config))
    /\ UNCHANGED <<backend, flights, config, callVars>>

ProbeValidateOperationSupport ==
    /\ \E supported \in SupportedLists :
           probe' = Probe("validateOperationSupport", FALSE, supported,
                          validateOperationSupport(config, "update_database", supported))
    /\ UNCHANGED <<backend, flights, config, callVars>>

ProbeGetDataHost ==
    /\ probe' = Probe("getDataHost", FALSE, <<>>, getDataHost(config))
    /\ UNCHANGED <<backend, flights, config, callVars>>

ProbeGetManagementHost ==
    /\ probe' = Probe("getManagementHost", TRUE, <<>>, getManagementHost(config))
    /\ UNCHANGED <<backend, flights, config, callVars>>

ProbeGetInfluxHttpClient ==
    /\ \E forManagement \in BOOLEAN :
           probe' = Probe("getInfluxHttpClient", forManagement, <<>>,
                          getInfluxHttpClient(config, forManagement))
    /\ UNCHANGED <<backend, flights, config, callVars>>

NextCap ==
    \/ ProbeHasDataCapabilities
    \/ ProbeHasManagementCapabilities
    \/ ProbeValidateDataCapabilities
    \/ ProbeValidateManagementCapabilities
    \/ ProbeValidateOperationSupport
    \/ ProbeGetDataHost
    \/ ProbeGetManagementHost
    \/ ProbeGetInfluxHttpClient

SpecCap == InitCap /\ [][NextCap]_vars

(***************************************************************************)
(* Dispatch layer: the calls a caller can make                             *)
(***************************************************************************)
DatabaseOps == {"listDatabases", "createDatabase", "updateDatabase", "deleteDatabase"}

SchemaOps == {"listSchemas", "getSchema", "createSchema", "updateSchema"}

HealthOps == {"ping", "getHealthStatus"}

\* an optional number: <<>> when the caller omitted it, <<n>> when supplied
NoNumber == <<>>

NanosPerSecond == 1000000000

DefaultRetentionSeconds == 2592000

\* A retention in nanoseconds is a JavaScript number beyond the range of a
\* 32-bit integer (30 days are 2592000000000000 ns).  It is held as the
\* two-digit numeral n = s * NanosPerSecond + ns in base NanosPerSecond, with
\* 0 <= ns < NanosPerSecond.
Nanos(s, ns) == [s |-> s, ns |-> ns]

\* the JavaScript truthiness of a number: every number but 0
NonZero(n) == n # Nanos(0, 0)

\* everySeconds * 1000000000: the numeral shifted by one digit
SecondsToNanos(everySeconds) == Nanos(everySeconds, 0)

\* Math.floor(retentionPeriod / 1000000000): the numeral without its last digit
NanosToSeconds(n) == n.s

NoCfg == [present |-> FALSE]

\* database configs a caller passes to create / update
DbCfg(maxTables, maxColumnsPerTable, retentionPeriod, newName, description) ==
    [present |-> TRUE, maxTables |-> maxTables,
     maxColumnsPerTable |-> maxColumnsPerTable,
     retentionPeriod |-> retentionPeriod, name |-> newName,
     description |-> description]

DbCfgs ==
    {DbCfg(NoNumber, NoNumber, NoNumber, Undefined, Undefined),
     DbCfg(<<0>>, NoNumber, <<Nanos(1, NanosPerSecond \div 2)>>, <<"b">>, Undefined),
     DbCfg(NoNumber, <<7>>, <<Nanos(0, 0)>>, Undefined, <<"d">>),
     DbCfg(<<3>>, <<0>>, <<Nanos(0, NanosPerSecond \div 2)>>, Undefined, Undefined)}

\* schema columns a caller passes to createSchema / updateSchema
Column(name, type, dataType) == [name |-> name, type |-> type, dataType |-> dataType]

ColumnLists ==
    {<<>>,
     <<Column("time", "timestamp", Undefined), Column("v", "field", <<"float">>)>>,
     <<Column("host", "tag", <<"string">>)>>}

SchemaCfgs ==
    {[present |-> TRUE, hasColumns |-> FALSE, columns |-> <<>>]}
    \cup {[present |-> TRUE, hasColumns |-> TRUE, columns |-> cols] : cols \in ColumnLists}

Names == {<<>>, <<"a">>, <<"a", "/">>}

Call(op, name, schemaName, cfg) ==
    [op |-> op, name |-> name, schemaName |-> schemaName, cfg |-> cfg]

Calls ==
    {Call("listDatabases", <<>>, <<>>, NoCfg)}
    \cup {Call("createDatabase", n, <<>>, c) : n \in Names, c \in DbCfgs \cup {NoCfg}}
    \cup {Call("updateDatabase", n, <<>>, c) : n \in Names, c \in DbCfgs}
    \cup {Call("deleteDatabase", n, <<>>, NoCfg) : n \in Names}
    \cup {Call("listSchemas", <<"a">>, <<>>, NoCfg)}
    \cup {Call("getSchema", <<"a">>, <<"cpu">>, NoCfg)}
    \cup {Call("createSchema", <<"a">>, <<"cpu">>, c) :
              c \in {k \in SchemaCfgs : k.hasColumns}}
    \cup {Call("updateSchema", <<"a">>, <<"cpu">>, c) : c \in SchemaCfgs}
    \cup {Call(op, <<>>, <<>>, NoCfg) : op \in HealthOps}

(***************************************************************************)
(* Dispatch layer: validation                                              *)
(***************************************************************************)
\* mutant: deleteDatabase omits its capability validation
Validators_DeleteUnvalidated(op) ==
    IF op = "listDatabases" THEN <<"capability">>
    ELSE IF op = "createDatabase" THEN <<"name", "capability">>
    ELSE IF op = "deleteDatabase" THEN <<"name">>
    ELSE IF op = "updateDatabase" THEN <<"name", "support", "capability">>
    ELSE IF op \in SchemaOps THEN <<"support", "capability">>
    ELSE <<>>

\* mutant: updateDatabase validates capabilities before operation support
Validators_CapabilityFirst(op) ==
    IF op = "listDatabases" THEN <<"capability">>
    ELSE IF op \in {"createDatabase", "deleteDatabase"} THEN <<"name", "capability">>
    ELSE IF op = "updateDatabase" THEN <<"name", "capability", "support">>
    ELSE IF op \in SchemaOps THEN <<"support", "capability">>
    ELSE <<>>

\* the checks an entry point runs before its switch, in the order it runs them
Validators(op) ==
    IF op = "listDatabases" THEN <<"capability">>
    ELSE IF op \in {"createDatabase", "deleteDatabase"} THEN <<"name", "capability">>
    ELSE IF op = "updateDatabase" THEN <<"name", "support", "capability">>
    ELSE IF op \in SchemaOps THEN <<"support", "capability">>
    ELSE <<>>

\* if (!name) throw new Error("Database name is required")
validateName(name) ==
    IF ~Truthy(name) THEN MkError(<<"Database name is required">>) ELSE NoError

\* mutant: the schema operations accept every product type
validateSchemaType_AnyType(c) == NoError

\* validateSchemaOperationSupport: the product-type check
validateSchemaType(c) ==
    IF c.type # CloudServerless
    THEN MkError(<<"Schema management is only supported for", "Cloud Serverless",
                   "Current type:", c.type>>)
    ELSE NoError

\* the error (or NoError) of one check for one call
RunValidator(tag, c, k) ==
    IF tag = "name" THEN validateName(k.name)
    ELSE IF tag = "support" THEN
        IF k.op = "updateDatabase"
        THEN validateOperationSupport(c, "update_database", UpdateDatabaseTypes)
        ELSE validateSchemaType(c)
    ELSE validateManagementCapabilities(c)

\* the product-specific strategy the switch of an entry point selects
Strategy(type) ==
    IF type = CloudDedicated \/ type = Clustered THEN "dedicated"
    ELSE IF type = CloudServerless THEN "serverless"
    ELSE "core"

\* getInfluxHttpClient(true) versus getInfluxHttpClient()
ForManagement(op, strat) == ~(op \in DatabaseOps /\ strat = "core")

Failed(err) == [state |-> "error", value |-> [kind |-> "none"], error |-> err]

Returned(value) == [state |-> "ok", value |-> value, error |-> NoError]

(***************************************************************************)
(* Spec: one call at a time through the dispatch layer                     *)
(***************************************************************************)
Init ==
    /\ config \in DispatchConfigs
    /\ probe = NoProbe
    /\ NoFlights
    /\ IdleCall

\* a caller invokes an operation; the previous call's state is discarded
Invoke ==
    /\ pc \in {"idle", "done"}
    /\ \E k \in Calls : call' = k
    /\ pc' = "validate"
    /\ vi' = 1
    /\ client' = NoClient
    /\ stage' = 1
    /\ locals' = NoLocals
    /\ pending' = NoRequest
    /\ log' = <<>>
    /\ result' = NoResult
    /\ steps' = <<>>
    /\ UNCHANGED <<backend, flights, config, probe>>

\* the next check of the entry point; a failing check ends the call
Validate ==
    /\ pc = "validate"
    /\ vi <= Len(Validators(call.op))
    /\ LET tag == Validators(call.op)[vi]
           err == RunValidator(tag, config, call)
       IN /\ steps' = Append(steps, tag)
          /\ IF err # NoError
             THEN /\ result' = Failed(err)
                  /\ pc' = "done"
                  /\ vi' = vi
             ELSE /\ result' = result
                  /\ pc' = "validate"
                  /\ vi' = vi + 1
    /\ UNCHANGED <<backend, flights, config, probe, call, client, stage, locals,
                   pending, log>>

(***************************************************************************)
(* Dispatch layer: the requests of each product-specific strategy          *)
(***************************************************************************)
\* encodeURIComponent, character by character
EncodeChar(ch) ==
    IF ch = "/" THEN "%2F" ELSE IF ch = " " THEN "%20" ELSE ch

encodeURIComponent(s) == [i \in 1..Len(s) |-> EncodeChar(s[i])]

\* /api/v0/accounts/${account_id}/clusters/${cluster_id}/databases
DedicatedEndpoint(c) ==
    <<"/api/v0/accounts/">> \o Interp(c.account_id) \o <<"/clusters/">>
    \o Interp(c.cluster_id) \o <<"/databases">>

BucketsPath == <<"/api/v2/buckets">>

OrgsPath == <<"/api/v2/orgs">>

CoreDatabasePath == <<"/api/v3/configure/database">>

\* mutant: the schema path is built without the resolved bucket id
MeasurementsPath_Unresolved(bucketId) ==
    <<"/api/v2/buckets/">> \o Interp(Undefined) \o <<"/schema/measurements">>

MeasurementsPath(bucketId) ==
    <<"/api/v2/buckets/">> \o Interp(bucketId) \o <<"/schema/measurements">>

\* mutant: the default also replaces a supplied 0 (config?.field ? ... : default)
OrDefault_Truthy(cfg, field, default) ==
    LET zero == IF field = "retentionPeriod" THEN Nanos(0, 0) ELSE 0
    IN IF cfg.present /\ cfg[field] # NoNumber /\ cfg[field][1] # zero
       THEN cfg[field][1] ELSE default

\* config?.field !== undefined ? config.field : default
OrDefault(cfg, field, default) ==
    IF cfg.present /\ cfg[field] # NoNumber THEN cfg[field][1] ELSE default

createDatabaseCloudDedicatedPayload(name, cfg) ==
    [name |-> name,
     maxTables |-> OrDefault(cfg, "maxTables", 500),
     maxColumnsPerTable |-> OrDefault(cfg, "maxColumnsPerTable", 200),
     retentionPeriod |-> OrDefault(cfg, "retentionPeriod", Nanos(0, 0))]

\* mutant: the patch fills in the defaults of create
updateDatabaseCloudDedicatedPayload_WithDefaults(cfg) ==
    [maxTables |-> OrDefault(cfg, "maxTables", 500),
     maxColumnsPerTable |-> OrDefault(cfg, "maxColumnsPerTable", 200),
     retentionPeriod |-> OrDefault(cfg, "retentionPeriod", Nanos(0, 0))]

\* the patch of updateDatabaseCloudDedicated: only the supplied fields
updateDatabaseCloudDedicatedPayload(cfg) ==
    [f \in {g \in {"maxTables", "maxColumnsPerTable", "retentionPeriod"} :
                cfg[g] # NoNumber} |-> cfg[f][1]]

ExpireRule(everySeconds) == [type |-> "expire", everySeconds |-> everySeconds]

\* config?.retentionPeriod ? Math.floor(config.retentionPeriod / 1e9) : 2592000
createDatabaseCloudServerlessPayload(name, orgID, cfg) ==
    [name |-> name,
     orgID |-> orgID,
     retentionRules |->
         <<ExpireRule(IF cfg.present /\ cfg.retentionPeriod # NoNumber
                         /\ NonZero(cfg.retentionPeriod[1])
                      THEN NanosToSeconds(cfg.retentionPeriod[1])
                      ELSE DefaultRetentionSeconds)>>,
     description |-> IF cfg.present /\ Truthy(cfg.description)
                     THEN cfg.description ELSE Undefined]

\* mutant: the patch sends the bucket's rules as they are, without a default
updateDatabaseCloudServerlessPayload_NoDefault(bucket, cfg) ==
    [name |-> IF Truthy(cfg.name) /\ cfg.name # bucket.name
              THEN cfg.name ELSE Undefined,
     description |-> cfg.description,
     retentionRules |-> IF cfg.retentionPeriod # NoNumber
                        THEN <<ExpireRule(NanosToSeconds(cfg.retentionPeriod[1]))>>
                        ELSE bucket.retentionRules]

updateDatabaseCloudServerlessPayload(bucket, cfg) ==
    LET rules == IF cfg.retentionPeriod # NoNumber
                 THEN <<ExpireRule(NanosToSeconds(cfg.retentionPeriod[1]))>>
                 ELSE IF bucket.hasRules THEN bucket.retentionRules
                 ELSE <<ExpireRule(DefaultRetentionSeconds)>>
    IN [name |-> IF Truthy(cfg.name) /\ cfg.name # bucket.name
                 THEN cfg.name ELSE Undefined,
        description |-> cfg.description,
        retentionRules |-> IF rules = <<>>
                           THEN <<ExpireRule(DefaultRetentionSeconds)>>
                           ELSE rules]

\* createSchema: dataType is sent for field columns only
createSchemaColumn(col) ==
    [type |-> col.type, name |-> col.name,
     dataType |-> IF col.type = "field" /\ Truthy(col.dataType)
                  THEN col.dataType ELSE Undefined]

createSchemaPayload(k) ==
    [name |-> k.schemaName,
     columns |-> [i \in 1..Len(k.cfg.columns) |-> createSchemaColumn(k.cfg.columns[i])]]

\* mutant: the patch carries the field columns only
updateSchemaPayload_FieldsOnly(cfg) ==
    LET fields == SelectSeq(cfg.columns, LAMBDA col : col.type = "field")
    IN [columns |-> [i \in 1..Len(fields) |-> createSchemaColumn(fields[i])]]

\* config.columns?.map(...) || []
updateSchemaPayload(cfg) ==
    [columns |-> IF cfg.hasColumns
                 THEN [i \in 1..Len(cfg.columns) |-> createSchemaColumn(cfg.columns[i])]
                 ELSE <<>>]

NoBody == [kind |-> "none"]

Req(verb, path, body) == [verb |-> verb, path |-> path, body |-> body]

\* the number of requests a strategy sends when nothing fails
NumStages(op, strat) ==
    IF op \in {"getSchema", "updateSchema"} THEN 3
    ELSE IF op \in {"listSchemas", "createSchema"} THEN 2
    ELSE IF strat = "serverless" /\ op \in {"createDatabase", "updateDatabase", "deleteDatabase"}
    THEN 2
    ELSE 1

\* the request a strategy builds at a stage
BuildRequest(k, c, strat, st, loc) ==
    IF k.op = "ping" THEN Req("fetch", <<"/ping">>, NoBody)
    ELSE IF k.op = "getHealthStatus" THEN Req("fetch", <<"/health">>, NoBody)
    ELSE IF k.op \in SchemaOps THEN
        IF st = 1 THEN Req("get", BucketsPath, NoBody)
        ELSE IF st = 2 /\ k.op = "createSchema"
        THEN Req("post", MeasurementsPath(loc.bucket.id), createSchemaPayload(k))
        ELSE IF st = 2 THEN Req("get", MeasurementsPath(loc.bucket.id), NoBody)
        ELSE IF k.op = "getSchema"
        THEN Req("get", MeasurementsPath(loc.bucket.id) \o <<"/">>
                        \o Interp(loc.measurementId), NoBody)
        ELSE Req("patch", MeasurementsPath(loc.bucket.id) \o <<"/">>
                          \o Interp(loc.measurementId), updateSchemaPayload(k.cfg))
    ELSE IF strat = "dedicated" THEN
        IF k.op = "listDatabases" THEN Req("get", DedicatedEndpoint(c), NoBody)
        ELSE IF k.op = "createDatabase"
        THEN Req("post", DedicatedEndpoint(c),
                 createDatabaseCloudDedicatedPayload(k.name, k.cfg))
        ELSE IF k.op = "updateDatabase"
        THEN Req("patch", DedicatedEndpoint(c) \o <<"/">> \o encodeURIComponent(k.name),
                 updateDatabaseCloudDedicatedPayload(k.cfg))
        ELSE Req("delete", DedicatedEndpoint(c) \o <<"/">> \o encodeURIComponent(k.name),
                 NoBody)
    ELSE IF strat = "serverless" THEN
        IF k.op = "listDatabases" THEN Req("get", BucketsPath, NoBody)
        ELSE IF k.op = "createDatabase" THEN
            IF st = 1 THEN Req("get", OrgsPath, NoBody)
            ELSE Req("post", BucketsPath,
                     createDatabaseCloudServerlessPayload(k.name, loc.orgID, k.cfg))
        ELSE IF st = 1 THEN Req("get", BucketsPath, NoBody)
        ELSE IF k.op = "updateDatabase"
        THEN Req("patch", BucketsPath \o <<"/">> \o Interp(loc.bucket.id),
                 updateDatabaseCloudServerlessPayload(loc.bucket, k.cfg))
        ELSE Req("delete", BucketsPath \o <<"/">> \o Interp(loc.bucket.id), NoBody)
    ELSE
        IF k.op = "listDatabases"
        THEN Req("get", CoreDatabasePath \o <<"?format=json">>, NoBody)
        ELSE IF k.op = "createDatabase"
        THEN Req("post", CoreDatabasePath, [db |-> k.name])
        ELSE Req("delete", CoreDatabasePath \o <<"?db=">> \o encodeURIComponent(k.name),
                 NoBody)

\* what a strategy throws before it sends the request of a stage
BeforeSend(k, strat, st) ==
    IF k.op = "updateDatabase" /\ strat = "dedicated"
       /\ DOMAIN updateDatabaseCloudDedicatedPayload(k.cfg) = {}
    THEN MkError(<<"No configuration parameters provided for update">>)
    ELSE NoError

(***************************************************************************)
(* The backend: what a request can come back with                          *)
(***************************************************************************)
Bucket(id, name, type, hasRules, rules) ==
    [id |-> id, name |-> name, type |-> type, hasRules |-> hasRules,
     retentionRules |-> rules]

BucketListings ==
    {<<>>,
     <<Bucket(<<"b1">>, <<"a">>, "user", TRUE, <<ExpireRule(86400)>>),
       Bucket(<<"b0">>, <<"_monitoring">>, "system", FALSE, <<>>)>>,
     <<Bucket(<<"b9">>, <<"a">>, "system", TRUE, <<>>),
       Bucket(<<"b2">>, <<"a">>, "user", TRUE, <<>>),
       Bucket(<<"b3">>, <<"a", "/">>, "user", FALSE, <<>>),
       Bucket(<<"b4">>, <<"z">>, "user", TRUE, <<ExpireRule(0)>>)>>}

MeasurementSchema(id, name, columns) == [id |-> id, name |-> name, columns |-> columns]

SchemaListings ==
    {<<>>,
     <<MeasurementSchema(<<"m1">>, <<"mem">>, <<>>),
       MeasurementSchema(<<"m2">>, <<"cpu">>, <<Column("time", "timestamp", Undefined)>>)>>}

DatabaseItem(shape, name) == [shape |-> shape, name |-> name]

\* the bodies a successful request can return, by the kind of resource asked for
OkData(kind) ==
    IF kind = "buckets" THEN
        {[kind |-> "buckets", envelope |-> "buckets", buckets |-> l] : l \in BucketListings}
        \cup {[kind |-> "buckets", envelope |-> "none", buckets |-> <<>>]}
    ELSE IF kind = "orgs" THEN
        {[kind |-> "orgs", hasOrgs |-> TRUE, orgs |-> <<[id |-> <<"o1">>]>>],
         [kind |-> "orgs", hasOrgs |-> TRUE, orgs |-> <<>>],
         [kind |-> "orgs", hasOrgs |-> FALSE, orgs |-> <<>>]}
    ELSE IF kind = "measurements" THEN
        {[kind |-> "measurements", hasList |-> TRUE, measurementSchemas |-> l] :
             l \in SchemaListings}
        \cup {[kind |-> "measurements", hasList |-> FALSE, measurementSchemas |-> <<>>]}
    ELSE IF kind = "measurement" THEN
        {[kind |-> "measurement", name |-> <<"cpu">>, bucketID |-> Undefined,
          hasColumns |-> TRUE, columns |-> <<Column("time", "timestamp", Undefined)>>]}
    ELSE IF kind = "databases" THEN
        {[kind |-> "databases", envelope |-> "databases",
          items |-> <<DatabaseItem("string", <<"a">>), DatabaseItem("iox", <<"b">>),
                      DatabaseItem("name", <<"c">>)>>],
         [kind |-> "databases", envelope |-> "array", items |-> <<>>],
         [kind |-> "databases", envelope |-> "none", items |-> <<>>]}
    ELSE IF kind = "health" THEN
        {[kind |-> "health", ok |-> TRUE, json |-> TRUE],
         [kind |-> "health", ok |-> TRUE, json |-> FALSE]}
    ELSE IF kind = "ping" THEN
        {[kind |-> "ping", ok |-> TRUE, version |-> <<"3">>, build |-> Undefined],
         [kind |-> "ping", ok |-> TRUE, version |-> Undefined, build |-> Undefined]}
    ELSE {[kind |-> "empty"]}

\* `${status}`
StatusStr(status) ==
    IF status = 400 THEN "400" ELSE IF status = 401 THEN "401"
    ELSE IF status = 403 THEN "403" ELSE IF status = 404 THEN "404"
    ELSE IF status = 409 THEN "409" ELSE IF status = 500 THEN "500"
    ELSE IF status = 503 THEN "503" ELSE "undefined"

HttpStatuses == {400, 401, 403, 404, 409, 500, 503}

\* the error the transport raises for a response with a failure status
HttpFailure(status, dataMessage) ==
    [message |-> <<"Request failed with status code", StatusStr(status)>>,
     code |-> "ERR_BAD_RESPONSE",
     response |-> [status |-> status, statusText |-> <<"status text">>,
                   hasData |-> TRUE, dataMessage |-> dataMessage]]

\* the same for a response whose body is empty
HttpFailureNoBody(status) ==
    [message |-> <<"Request failed with status code", StatusStr(status)>>,
     code |-> "ERR_BAD_RESPONSE",
     response |-> [status |-> status, statusText |-> <<"status text">>,
                   hasData |-> FALSE, dataMessage |-> Undefined]]

NetworkFailure(message, code) ==
    [message |-> message, code |-> code, response |-> NoResponse]

RequestAborted == NetworkFailure(<<"Request", " ", "aborted">>, "ECONNABORTED")

\* the errors a request can fail with
TransportErrors ==
    {HttpFailure(st, <<"server says no">>) : st \in HttpStatuses}
    \cup {HttpFailure(404, Undefined),
          HttpFailureNoBody(503),
          NetworkFailure(<<"connect", " ", "ECONNREFUSED">>, "ECONNREFUSED"),
          NetworkFailure(<<"getaddrinfo", " ", "ENOTFOUND">>, "ENOTFOUND"),
          NetworkFailure(<<"timeout of 30000ms exceeded">>, "ECONNABORTED"),
          RequestAborted}

\* the outcome of the underlying call of one request
Outcomes(kind) ==
    {[ok |-> TRUE, data |-> d, error |-> NoError] : d \in OkData(kind)}
    \cup {[ok |-> FALSE, data |-> [kind |-> "none"], error |-> e] : e \in TransportErrors}

(***************************************************************************)
(* HttpClientService: the verbs                                            *)
(***************************************************************************)
Resolved(data) == [threw |-> FALSE, data |-> data, error |-> NoError]

Rejected(err) == [threw |-> TRUE, data |-> [kind |-> "none"], error |-> err]

get(outcome) == IF outcome.ok THEN Resolved(outcome.data) ELSE Rejected(outcome.error)

\* mutant: post swallows the failure of its request
post_Swallows(outcome) ==
    Resolved(IF outcome.ok THEN outcome.data ELSE [kind |-> "empty"])

post(outcome) == IF outcome.ok THEN Resolved(outcome.data) ELSE Rejected(outcome.error)

patch(outcome) == IF outcome.ok THEN Resolved(outcome.data) ELSE Rejected(outcome.error)

\* mutant: delete rethrows every error
delete_Rethrows(outcome) ==
    IF outcome.ok THEN Resolved(outcome.data) ELSE Rejected(outcome.error)

\* delete: an error whose message includes "aborted" is a successful delete
delete(outcome) ==
    IF outcome.ok THEN Resolved(outcome.data)
    ELSE IF Includes(outcome.error.message, "aborted") THEN Resolved([kind |-> "empty"])
    ELSE Rejected(outcome.error)

\* fetch resolves with any response and rejects on a network failure only
fetch(outcome) ==
    IF outcome.ok THEN Resolved(outcome.data)
    ELSE IF outcome.error.response # NoResponse
    THEN Resolved([kind |-> "http-failure", ok |-> FALSE,
                   status |-> outcome.error.response.status])
    ELSE Rejected(outcome.error)

CallVerb(verb, outcome) ==
    IF verb = "get" THEN get(outcome)
    ELSE IF verb = "post" THEN post(outcome)
    ELSE IF verb = "patch" THEN patch(outcome)
    ELSE IF verb = "delete" THEN delete(outcome)
    ELSE fetch(outcome)

(***************************************************************************)
(* Dispatch layer: error mapping                                           *)
(***************************************************************************)
\* data?.message || data?.error || statusText
OriginalMessage(response) ==
    IF Truthy(response.dataMessage) THEN response.dataMessage
    ELSE IF Truthy(response.statusText) THEN response.statusText
    ELSE Undefined

DatabaseStatusText(status) ==
    IF status = 400 THEN "Bad Request"
    ELSE IF status = 401 THEN "Unauthorized"
    ELSE IF status = 403 THEN "Forbidden"
    ELSE IF status = 404 THEN "Not Found"
    ELSE IF status = 409 THEN "Conflict"
    ELSE "Internal Server Error"

handleDatabaseError(error, operation) ==
    LET status == error.response.status
        original == OriginalMessage(error.response)
        formatError(userMessage) ==
            <<"HTTP", StatusStr(status), " - ", userMessage>>
            \o (IF Truthy(original) /\ original # error.response.statusText
                THEN <<" - ", "Server message:">> \o original ELSE <<>>)
    IN IF status \in {400, 401, 403, 404, 409, 500}
       THEN MkError(formatError(DatabaseStatusText(status)))
       ELSE IF error.code = "ECONNREFUSED" THEN MkError(<<"Connection refused">>)
       ELSE IF error.code = "ENOTFOUND" THEN MkError(<<"Host not found">>)
       ELSE IF error.response.hasData
       THEN MkError(<<"HTTP", StatusStr(status), " - ", "InfluxDB API error:">>
                    \o Interp(original))
       ELSE MkError(<<"Failed to">> \o operation \o <<":">> \o error.message)

handleSchemaError(error, operation) ==
    LET status == error.response.status
        original == OriginalMessage(error.response)
        formatError(userMessage) ==
            <<"HTTP", StatusStr(status), " - ", userMessage>>
            \o (IF Truthy(original)
                THEN <<" - ", "Server message:">> \o original ELSE <<>>)
    IN IF status \in {400, 401, 403, 404, 409}
       THEN MkError(formatError(DatabaseStatusText(status)))
       ELSE MkError(<<"Failed to">> \o operation \o <<":">> \o error.message)

\* the catch block of updateSchema
updateSchemaCatch(error, schemaName) ==
    IF error.response.hasData
    THEN MkError(<<"Failed to update schema:", "response data">>)
    ELSE MkError(<<"Failed to update schema">> \o schemaName \o <<":">> \o error.message)

\* the operation text an entry point hands to its error handler
OperationLabel(k) == <<k.op>> \o k.name \o k.schemaName

\* what the catch block of a strategy makes of an error thrown inside its try
Catch(k, error) ==
    IF k.op \in DatabaseOps THEN Failed(handleDatabaseError(error, OperationLabel(k)))
    ELSE IF k.op = "updateSchema" THEN Failed(updateSchemaCatch(error, k.schemaName))
    ELSE IF k.op \in SchemaOps THEN Failed(handleSchemaError(error, OperationLabel(k)))
    ELSE IF k.op = "ping"
    THEN Returned([kind |-> "ping", ok |-> FALSE, message |-> error.message])
    ELSE Returned([kind |-> "health", status |-> "fail"])

(***************************************************************************)
(* Dispatch layer: what a strategy does with a response                    *)
(***************************************************************************)
RespKind(k, strat, st) ==
    IF k.op = "ping" THEN "ping"
    ELSE IF k.op = "getHealthStatus" THEN "health"
    ELSE IF k.op \in SchemaOps THEN
        IF st = 1 THEN "buckets"
        ELSE IF st = 2 THEN (IF k.op = "createSchema" THEN "empty" ELSE "measurements")
        ELSE IF k.op = "getSchema" THEN "measurement"
        ELSE "empty"
    ELSE IF k.op = "listDatabases"
    THEN (IF strat = "serverless" THEN "buckets" ELSE "databases")
    ELSE IF strat = "serverless" /\ st = 1
    THEN (IF k.op = "createDatabase" THEN "orgs" ELSE "buckets")
    ELSE "empty"

\* mutant: the lookup also finds system buckets
FindBucket_AnyType(data, name) ==
    LET hits == IF data.envelope = "buckets"
                THEN SelectSeq(data.buckets, LAMBDA b : b.name = name)
                ELSE <<>>
    IN IF hits = <<>> THEN [found |-> FALSE]
       ELSE [found |-> TRUE, id |-> hits[1].id, name |-> hits[1].name,
             hasRules |-> hits[1].hasRules, retentionRules |-> hits[1].retentionRules]

\* buckets.find(b => b.name === name && b.type !== "system")
FindBucket(data, name) ==
    LET hits == IF data.envelope = "buckets"
                THEN SelectSeq(data.buckets, LAMBDA b : b.name = name /\ b.type # "system")
                ELSE <<>>
    IN IF hits = <<>> THEN [found |-> FALSE]
       ELSE [found |-> TRUE, id |-> hits[1].id, name |-> hits[1].name,
             hasRules |-> hits[1].hasRules, retentionRules |-> hits[1].retentionRules]

\* measurementSchemas.find(s => s.name === schemaName)
FindSchema(data, schemaName) ==
    LET hits == IF data.hasList
                THEN SelectSeq(data.measurementSchemas, LAMBDA m : m.name = schemaName)
                ELSE <<>>
    IN IF hits = <<>> THEN Undefined ELSE hits[1].id

\* mutant: a create goes on without an organization
Lookup_WithoutOrganization(k, kind, data, loc) ==
    IF kind = "buckets" THEN
        LET b == FindBucket(data, k.name)
        IN [error |-> IF b.found THEN NoError
                      ELSE MkError((IF k.op \in DatabaseOps THEN <<"Database (bucket)">>
                                    ELSE <<"Bucket">>) \o k.name \o <<"not found">>),
            locals |-> [loc EXCEPT !.bucket = b]]
    ELSE IF kind = "orgs" THEN
        [error |-> NoError,
         locals |-> [loc EXCEPT !.orgID = IF data.hasOrgs /\ Len(data.orgs) > 0
                                          THEN data.orgs[1].id ELSE Undefined]]
    ELSE
        LET id == FindSchema(data, k.schemaName)
        IN [error |-> IF k.op = "updateSchema" /\ ~data.hasList
                      THEN MkError(<<"No schemas found in bucket">> \o k.name)
                      ELSE IF ~Truthy(id)
                      THEN MkError(<<"Schema">> \o k.schemaName \o <<"not found">>)
                      ELSE NoError,
            locals |-> [loc EXCEPT !.measurementId = id]]

\* a lookup response: the error thrown on it, and the ids kept from it
Lookup(k, kind, data, loc) ==
    IF kind = "buckets" THEN
        LET b == FindBucket(data, k.name)
        IN [error |-> IF b.found THEN NoError
                      ELSE MkError((IF k.op \in DatabaseOps THEN <<"Database (bucket)">>
                                    ELSE <<"Bucket">>) \o k.name \o <<"not found">>),
            locals |-> [loc EXCEPT !.bucket = b]]
    ELSE IF kind = "orgs" THEN
        IF data.hasOrgs /\ Len(data.orgs) > 0
        THEN [error |-> NoError, locals |-> [loc EXCEPT !.orgID = data.orgs[1].id]]
        ELSE [error |-> MkError(<<"Could not find organization ID for bucket creation">>),
              locals |-> loc]
    ELSE
        LET id == FindSchema(data, k.schemaName)
        IN [error |-> IF k.op = "updateSchema" /\ ~data.hasList
                      THEN MkError(<<"No schemas found in bucket">> \o k.name)
                      ELSE IF ~Truthy(id)
                      THEN MkError(<<"Schema">> \o k.schemaName \o <<"not found">>)
                      ELSE NoError,
            locals |-> [loc EXCEPT !.measurementId = id]]

(***************************************************************************)
(* Dispatch layer: response normalisation                                  *)
(***************************************************************************)
\* retentionRules?.[0]?.everySeconds ? everySeconds * 1e9 : undefined
BucketRetention(bucket) ==
    IF bucket.hasRules /\ bucket.retentionRules # <<>>
       /\ bucket.retentionRules[1].everySeconds # 0
    THEN <<SecondsToNanos(bucket.retentionRules[1].everySeconds)>>
    ELSE NoNumber

BucketToDatabase(bucket) ==
    [name |-> bucket.name, retentionPeriod |-> BucketRetention(bucket),
     bucketId |-> bucket.id]

listDatabasesCloudServerless(data) ==
    LET kept == SelectSeq(data.buckets, LAMBDA b : b.type # "system")
    IN [i \in 1..Len(kept) |-> BucketToDatabase(kept[i])]

\* the item mapping of listDatabasesCloudDedicated / listDatabasesCoreEnterprise
listDatabasesItems(data) == [i \in 1..Len(data.items) |-> [name |-> data.items[i].name]]

SchemaToInfo(schema, bucketId, bucketName) ==
    [name |-> schema.name, bucketId |-> bucketId, bucketName |-> bucketName,
     columns |-> schema.columns]

\* the canonical result (or the error thrown) for the final response of a call
Normalize(k, strat, data, loc) ==
    IF k.op = "listDatabases" THEN
        IF data.envelope = "none"
        THEN [error |-> MkError(<<"Unexpected response structure">>),
              value |-> [kind |-> "none"]]
        ELSE [error |-> NoError,
              value |-> [kind |-> "databases",
                         items |-> IF strat = "serverless"
                                   THEN listDatabasesCloudServerless(data)
                                   ELSE listDatabasesItems(data)]]
    ELSE IF k.op = "listSchemas" THEN
        [error |-> NoError,
         value |-> [kind |-> "schemas",
                    items |-> [i \in 1..Len(data.measurementSchemas) |->
                                  SchemaToInfo(data.measurementSchemas[i],
                                               loc.bucket.id, k.name)]]]
    ELSE IF k.op = "getSchema" THEN
        [error |-> NoError,
         value |-> [kind |-> "schema",
                    info |-> SchemaToInfo(data, loc.bucket.id, k.name)]]
    ELSE IF k.op = "ping" THEN
        [error |-> NoError,
         value |-> IF data.ok
                   THEN [kind |-> "ping", ok |-> TRUE, version |-> data.version,
                         build |-> IF Truthy(data.build) THEN data.build
                                   ELSE IF Truthy(data.version) THEN <<"Other">>
                                   ELSE Undefined]
                   ELSE [kind |-> "ping", ok |-> FALSE,
                         message |-> <<"Ping failed with status", StatusStr(data.status)>>]]
    ELSE IF k.op = "getHealthStatus" THEN
        [error |-> NoError,
         value |-> [kind |-> "health", status |-> IF data.ok THEN "pass" ELSE "fail"]]
    ELSE [error |-> NoError, value |-> [kind |-> "boolean", value |-> TRUE]]

(***************************************************************************)
(* Spec: the steps of a call                                               *)
(***************************************************************************)
\* initializeClient: the data client exists when the configuration is valid
dataClientInitialized(c) == isValidConfig(c)

\* the switch of the entry point and the transport its strategy obtains
ResolveTransport ==
    /\ pc = "validate"
    /\ vi > Len(Validators(call.op))
    /\ call.op \in DatabaseOps \cup SchemaOps
    /\ steps' = Append(steps, "transport")
    /\ IF call.op = "updateDatabase" /\ Strategy(config.type) = "core"
       THEN /\ result' = Failed(MkError(<<"Database update is not supported for",
                                          "core/enterprise">>))
            /\ pc' = "done"
            /\ client' = client
       ELSE /\ client' = getInfluxHttpClient(config,
                             ForManagement(call.op, Strategy(config.type)))
            /\ pc' = "request"
            /\ result' = result
    /\ UNCHANGED <<backend, flights, config, probe, call, vi, stage, locals,
                   pending, log>>

\* ping / getHealthStatus: the data host and the hard-coded header of their fetch
ResolveHealthHost ==
    /\ pc = "validate"
    /\ call.op \in HealthOps
    /\ steps' = Append(steps, "transport")
    /\ LET url == getDataHost(config)
       IN IF ~Truthy(url)
             \/ (call.op = "getHealthStatus" /\ ~dataClientInitialized(config))
          THEN /\ result' = IF call.op = "ping"
                            THEN Returned([kind |-> "ping", ok |-> FALSE,
                                           message |-> <<"No data host configured">>])
                            ELSE Returned([kind |-> "health", status |-> "fail"])
               /\ pc' = "done"
               /\ client' = client
          ELSE /\ client' = [baseURL |-> StripTrailingSlash(url),
                             Authorization |-> <<"Token", " ">> \o Interp(config.token)]
               /\ pc' = "request"
               /\ result' = result
    /\ UNCHANGED <<backend, flights, config, probe, call, vi, stage, locals,
                   pending, log>>

\* the strategy builds the request of its current stage and sends it
SendRequest ==
    /\ pc = "request"
    /\ LET strat == Strategy(config.type)
           err == BeforeSend(call, strat, stage)
           req == BuildRequest(call, config, strat, stage, locals)
       IN IF err # NoError
          THEN /\ result' = Catch(call, err)
               /\ pc' = "done"
               /\ UNCHANGED <<pending, log, steps>>
          ELSE /\ pending' = [verb |-> req.verb, host |-> client.baseURL,
                              path |-> req.path,
                              Authorization |-> client.Authorization,
                              Connection |-> IF req.verb = "delete"
                                             THEN <<"close">> ELSE Undefined,
                              body |-> req.body]
               /\ log' = Append(log, pending')
               /\ steps' = Append(steps, "request")
               /\ pc' = "await"
               /\ result' = result
    /\ UNCHANGED <<backend, flights, config, probe, call, vi, client, stage, locals>>

\* the awaited request settles: the strategy holds the response body, a
\* lookup keeps its ids, the last response is normalised
ReceiveResponse ==
    /\ pc = "await"
    /\ LET strat == Strategy(config.type)
           kind == RespKind(call, strat, stage)
       IN \E outcome \in Outcomes(kind) :
            LET r == CallVerb(pending.verb, outcome)
                settled == [settled |-> TRUE, ok |-> outcome.ok, error |-> outcome.error]
                last == call.op \in HealthOps \/ stage = NumStages(call.op, strat)
                look == IF last \/ r.threw THEN [error |-> NoError, locals |-> locals]
                        ELSE Lookup(call, kind, r.data, locals)
            IN IF r.threw
               THEN /\ result' = Catch(call, r.error)
                    /\ pc' = "done"
                    /\ locals' = [locals EXCEPT !.outcome = settled]
                    /\ stage' = stage
               ELSE IF look.error # NoError
               THEN /\ result' = Catch(call, look.error)
                    /\ pc' = "done"
                    /\ locals' = [locals EXCEPT !.data = r.data, !.outcome = settled]
                    /\ stage' = stage
               ELSE IF last
               THEN /\ locals' = [locals EXCEPT !.data = r.data, !.outcome = settled]
                    /\ pc' = "normalize"
                    /\ UNCHANGED <<stage, result>>
               ELSE /\ locals' = [look.locals EXCEPT !.data = r.data, !.outcome = settled]
                    /\ stage' = stage + 1
                    /\ pc' = "request"
                    /\ result' = result
    /\ pending' = NoRequest
    /\ steps' = Append(steps, "response")
    /\ UNCHANGED <<backend, flights, config, probe, call, vi, client, log>>

\* the final response becomes the canonical result handed to the caller
NormalizeResponse ==
    /\ pc = "normalize"
    /\ LET n == Normalize(call, Strategy(config.type), locals.data, locals)
       IN result' = IF n.error # NoError THEN Catch(call, n.error) ELSE Returned(n.value)
    /\ pc' = "done"
    /\ steps' = Append(steps, "normalize")
    /\ UNCHANGED <<backend, flights, config, probe, call, vi, client, stage, locals,
                   pending, log>>

Next ==
    \/ Invoke
    \/ Validate
    \/ ResolveTransport
    \/ ResolveHealthHost
    \/ SendRequest
    \/ ReceiveResponse
    \/ NormalizeResponse

Spec == Init /\ [][Next]_vars

(***************************************************************************)
(* SpecRet: the retention conversions of the CloudServerless strategy      *)
(* applied to every retention a caller can pass                            *)
(***************************************************************************)
\* whole seconds of the retentions a caller passes: a contiguous range, a
\* minute, a day and the 30-day default
RetentionSeconds == (0..MaxSeconds) \cup {60, 86400, DefaultRetentionSeconds}

\* retentionPeriod?: number, in nanoseconds
RetentionInputs ==
    {NoNumber}
    \cup {<<Nanos(sec, ns)>> :
              sec \in RetentionSeconds,
              ns \in {0, 1, NanosPerSecond \div 2, NanosPerSecond - 1}}

\* the config of a create call that passes the retention (or leaves it unset)
RetentionCfg(retention) == DbCfg(NoNumber, NoNumber, retention, Undefined, Undefined)

\* everySeconds of the rule createDatabaseCloudServerless sends for a retention
CreateSeconds(retention) ==
    createDatabaseCloudServerlessPayload(<<"a">>, <<"o1">>, RetentionCfg(retention))
        .retentionRules[1].everySeconds

\* the bucket the backend lists after that create
CreatedBucket(retention) ==
    Bucket(<<"b1">>, <<"a">>, "user", TRUE, <<ExpireRule(CreateSeconds(retention))>>)

\* the retention listDatabasesCloudServerless reads back from that bucket
RetentionRoundTrip(retention) == BucketRetention(CreatedBucket(retention))

InitRet ==
    /\ config \in {c \in DispatchConfigs :
                      c.type = CloudServerless /\ hasManagementCapabilities(c)
                      /\ AllDefined(c)}
    /\ probe = NoProbe
    /\ NoFlights
    /\ pc = "idle"
    /\ \E retention \in RetentionInputs :
           call = Call("createDatabase", <<"a">>, <<>>, RetentionCfg(retention))
    /\ vi = 1
    /\ client = NoClient
    /\ stage = 1
    /\ locals = NoLocals
    /\ pending = NoRequest
    /\ log = <<>>
    /\ result = NoResult
    /\ steps = <<>>

ProbeCreateSeconds ==
    /\ probe' = Probe("createSeconds", TRUE, <<>>,
                      <<CreateSeconds(call.cfg.retentionPeriod)>>)
    /\ UNCHANGED <<backend, flights, config, callVars>>

ProbeRoundTrip ==
    /\ probe' = Probe("roundTrip", TRUE, <<>>,
                      RetentionRoundTrip(call.cfg.retentionPeriod))
    /\ UNCHANGED <<backend, flights, config, callVars>>

ProbeRoundTripTwice ==
    /\ probe' = Probe("roundTripTwice", TRUE, <<>>,
                      RetentionRoundTrip(RetentionRoundTrip(call.cfg.retentionPeriod)))
    /\ UNCHANGED <<backend, flights, config, callVars>>

NextRet ==
    \/ ProbeCreateSeconds
    \/ ProbeRoundTrip
    \/ ProbeRoundTripTwice

SpecRet == InitRet /\ [][NextRet]_vars

(***************************************************************************)
(* Properties of the capability validator and the configuration resolver   *)
(* (checked under SpecCap)                                                 *)
(***************************************************************************)
\* a configuration field is present when it is set to a non-empty string
Present(v) == v # Undefined /\ Len(v) > 0

AllPresent(c, fields) == \A f \in fields : Present(c[f])

\* the management-plane fields the specification requires of a product type
RequiredManagementFields(type) ==
    IF type \in {CloudDedicated, Clustered}
    THEN {"cluster_id", "account_id", "management_token"}
    ELSE {"url", "token"}

\* the data-plane fields the specification requires of a product type
RequiredDataFields(type) ==
    IF type = CloudDedicated THEN {"cluster_id", "token"} ELSE {"url", "token"}

\* C1: hasManagementCapabilities returns true exactly when every management
\* field required of the product type is present: cluster_id, account_id and
\* management_token for CloudDedicated and Clustered, url and token for the
\* other types.
C1_ManagementCapabilityIffRequiredFields ==
    probe.fn = "hasManagementCapabilities" =>
        (probe.out <=> AllPresent(config, RequiredManagementFields(config.type)))

\* C2: hasDataCapabilities returns true exactly when the data-plane fields of
\* the product type are all present (cluster_id and token for CloudDedicated,
\* url and token otherwise); no other field affects the result.
C2_DataCapabilityIffRequiredFields ==
    probe.fn = "hasDataCapabilities" =>
        (probe.out <=> AllPresent(config, RequiredDataFields(config.type)))

\* C2 witness: CloudDedicated has data capabilities without any url, and lacks
\* them in no other way than through cluster_id or token.
C2_Witness ==
    /\ probe.fn = "hasDataCapabilities"
    /\ config.type = CloudDedicated
    /\ config.url = Undefined
    /\ config.management_token = Undefined
    /\ probe.out = TRUE

\* the name an error message gives a product type
TypeLabel(type) ==
    CASE type = Core -> "Core"
      [] type = Enterprise -> "Enterprise"
      [] type = CloudDedicated -> "Cloud Dedicated"
      [] type = CloudServerless -> "Cloud Serverless"
      [] type = Clustered -> "Clustered"

Elements(seq) == {seq[i] : i \in 1..Len(seq)}

\* C3: validateOperationSupport raises iff the active product type is not in
\* supportedTypes; the error names the operation's current product type and
\* lists every supported type; with the type in the set nothing is raised.
C3_OperationSupportAllowList ==
    probe.fn = "validateOperationSupport" =>
        /\ (probe.out # NoError) <=> (config.type \notin Elements(probe.supported))
        /\ probe.out # NoError =>
               /\ TypeLabel(config.type) \in Elements(probe.out.message)
               /\ \A t \in Elements(probe.supported) :
                      TypeLabel(t) \in Elements(probe.out.message)

\* C3 witness: update_database under Core raises, naming Core and the three
\* supported types.
C3_Witness ==
    /\ probe.fn = "validateOperationSupport"
    /\ config.type = Core
    /\ probe.supported = <<CloudDedicated, CloudServerless, Clustered>>
    /\ probe.out # NoError
    /\ {"Core", "Cloud Dedicated", "Cloud Serverless", "Clustered"}
           \subseteq Elements(probe.out.message)

C7_AbsentFieldYieldsEmptyHost ==
    probe.fn = "getDataHost" =>
        /\ (config.type = CloudDedicated /\ ~Present(config.cluster_id)) =>
               ~Present(probe.out)
        /\ (config.type # CloudDedicated /\ ~Present(config.url)) =>
               ~Present(probe.out)

(***************************************************************************)
(* Properties of the dispatch layer and the transport (checked under Spec) *)
(***************************************************************************)
DispatchOps == DatabaseOps \cup SchemaOps

\* the product types an operation is defined for
DefinedFor(op) ==
    IF op = "updateDatabase" THEN {CloudDedicated, CloudServerless, Clustered}
    ELSE IF op \in SchemaOps THEN {CloudServerless}
    ELSE ProductTypes

\* C4: a database or schema operation issues no network request unless
\* hasManagementCapabilities holds and the operation is defined for the active
\* product type; when either check fails the operation ends with an error
\* and has sent nothing.
C4_NoRequestBeforeValidation ==
    call.op \in DispatchOps =>
        LET allowed == hasManagementCapabilities(config)
                       /\ config.type \in DefinedFor(call.op)
        IN /\ (log # <<>> \/ pending # NoRequest) => allowed
           /\ (pc = "done" /\ ~allowed) => (result.state = "error" /\ log = <<>>)

\* C4 witness: a delete under CloudDedicated without a management token has
\* ended with an error and an empty request log.
C4_Witness ==
    /\ call.op = "deleteDatabase"
    /\ Present(call.name)
    /\ config.type = CloudDedicated
    /\ ~hasManagementCapabilities(config)
    /\ pc = "done"
    /\ result.state = "error"
    /\ log = <<>>

\* the position of a step in the per-call state machine of the specification
SpecRank(step) ==
    CASE step = "name" -> 0
      [] step = "capability" -> 1
      [] step = "support" -> 2
      [] step = "transport" -> 3
      [] step \in {"request", "response"} -> 4
      [] step = "normalize" -> 5

\* the position of a step in the order the entry points run them
CodeRank(step) ==
    CASE step = "name" -> 0
      [] step = "support" -> 1
      [] step = "capability" -> 2
      [] step = "transport" -> 3
      [] step \in {"request", "response"} -> 4
      [] step = "normalize" -> 5

HasBothChecks(op) == op = "updateDatabase" \/ op \in SchemaOps

FailsBoth(op, c) ==
    /\ HasBothChecks(op)
    /\ ~hasManagementCapabilities(c)
    /\ c.type \notin DefinedFor(op)

\* a failed call stopped at its failing step: nothing was executed after it
ShortCircuit ==
    /\ result.state = "error" => pc = "done"
    /\ (pc = "done" /\ call.op \in DispatchOps /\ "transport" \notin Elements(steps)) =>
           (result.state = "error" /\ log = <<>> /\ client = NoClient)
    /\ (pc = "done" /\ call.op \in DispatchOps /\ result.state = "ok") =>
           (steps[Len(steps)] = "normalize" /\ "transport" \in Elements(steps)
            /\ "capability" \in Elements(steps) /\ log # <<>>)

\* C5 as stated: every call runs capability validation, then allow-list
\* validation, then transport resolution, requests, normalisation; a failing
\* step ends the call; a configuration failing both checks reports the
\* capability failure.
C5_CapabilityBeforeAllowList ==
    /\ \A i, j \in 1..Len(steps) : i < j => SpecRank(steps[i]) <= SpecRank(steps[j])
    /\ ShortCircuit
    /\ (pc = "done" /\ Present(call.name) /\ FailsBoth(call.op, config)) =>
           result.error = validateManagementCapabilities(config)

\* C5 amended: every call runs the allow-list validation first, then the
\* capability validation, then transport resolution, requests, normalisation;
\* a failing step ends the call; a configuration failing both checks reports
\* the unsupported-operation failure and the capability check is never run.
C5_AllowListBeforeCapability ==
    /\ \A i, j \in 1..Len(steps) : i < j => CodeRank(steps[i]) <= CodeRank(steps[j])
    /\ ShortCircuit
    /\ (pc = "done" /\ Present(call.name) /\ FailsBoth(call.op, config)) =>
           /\ result.state = "error"
           /\ result.error # validateManagementCapabilities(config)
           /\ "capability" \notin Elements(steps)
           /\ steps[Len(steps)] = "support"

\* C5 witness: updateDatabase under Core without url has ended, failing both
\* checks.
C5_Witness ==
    /\ call.op = "updateDatabase"
    /\ Present(call.name)
    /\ config.type = Core
    /\ ~Present(config.url)
    /\ pc = "done"
    /\ result.state = "error"

\* the scheme the specification selects for a product type
SchemeFor(type) == IF type = CloudServerless THEN "Token" ELSE "Bearer"

\* the credential a dispatch operation's client is built with
CredentialFor(op, c) ==
    IF c.type \in {CloudDedicated, Clustered} THEN c.management_token ELSE c.token

\* a string with at least one character that is not white space
NonBlank(v) == v # Undefined /\ \E i \in 1..Len(v) : v[i] # " "

C9_HealthRequestsUseProductScheme ==
    \A i \in 1..Len(log) :
        NonBlank(config.token) /\ log[i].Authorization # Undefined =>
            log[i].Authorization[1] = SchemeFor(config.type)

LastRequest == log[Len(log)]

\* C10: a delete whose underlying call fails with a message containing
\* "aborted" completes as a successful delete with an empty result and the
\* database delete returns success; a delete failing with any other error
\* raises; get, post and patch never turn an "aborted" failure into success.
C10_AbortedDeleteIsSuccess ==
    (call.op \in DispatchOps /\ locals.outcome.settled /\ ~locals.outcome.ok
     /\ pc \in {"normalize", "done"}) =>
        IF LastRequest.verb = "delete" /\ "aborted" \in Elements(locals.outcome.error.message)
        THEN /\ locals.data = [kind |-> "empty"]
             /\ result.state # "error"
             /\ pc = "done" => result = Returned([kind |-> "boolean", value |-> TRUE])
        ELSE pc = "done" /\ result.state = "error"

\* C10 witness: a database delete whose delete request was aborted has
\* returned success.
C10_Witness ==
    /\ call.op = "deleteDatabase"
    /\ pc = "done"
    /\ log # <<>>
    /\ LastRequest.verb = "delete"
    /\ locals.outcome.error = RequestAborted
    /\ result.state = "ok"

(***************************************************************************)
(* Properties of failure propagation (checked under Spec)                  *)
(***************************************************************************)
\* the latest request of the call failed, and not as an aborted delete
RequestFailed ==
    /\ locals.outcome.settled
    /\ ~locals.outcome.ok
    /\ ~(LastRequest.verb = "delete"
         /\ "aborted" \in Elements(locals.outcome.error.message))

\* C11: no retries and no swallowed failures: once a request of a database or
\* schema operation has failed (other than a delete failing with "aborted")
\* the operation sends no further request, no request is sent twice in one
\* call, and the operation ends by raising an error, never with a success
\* result.
C11_NoRetryNoSwallowedFailure ==
    /\ [](call.op \in DispatchOps =>
             /\ \A i, j \in 1..Len(log) :
                    i < j => <<log[i].verb, log[i].path>> # <<log[j].verb, log[j].path>>
             /\ RequestFailed => (pc = "done" /\ result.state = "error"))
    /\ [][(call.op \in DispatchOps /\ RequestFailed) =>
              (log' = log \/ (pc' = "validate" /\ log' = <<>>))]_vars

\* C11 witness: a getSchema call whose second request failed has ended with
\* an error after exactly two requests.
C11_Witness ==
    /\ call.op = "getSchema"
    /\ pc = "done"
    /\ Len(log) = 2
    /\ RequestFailed
    /\ result.state = "error"

\* the error kind a raised error belongs to, read off its message
ErrorKind(err) ==
    LET m == err.message
    IN IF m = <<"Connection refused">> THEN "connection-refused"
       ELSE IF m = <<"Host not found">> THEN "host-not-found"
       ELSE IF Len(m) >= 4 /\ m[1] = "HTTP" THEN
            IF m[4] = "Bad Request" THEN "invalid-request"
            ELSE IF m[4] = "Unauthorized" THEN "unauthorized"
            ELSE IF m[4] = "Forbidden" THEN "forbidden"
            ELSE IF m[4] = "Not Found" THEN "not-found"
            ELSE IF m[4] = "Conflict" THEN "conflict"
            ELSE IF m[4] = "Internal Server Error" THEN "server-error"
            ELSE IF m[4] = "InfluxDB API error:" THEN "passthrough"
            ELSE "other"
       ELSE "other"

\* the error kind the specification assigns to a failed request
ExpectedKind(error) ==
    LET status == error.response.status
    IN IF status = 400 THEN "invalid-request"
       ELSE IF status = 401 THEN "unauthorized"
       ELSE IF status = 403 THEN "forbidden"
       ELSE IF status = 404 THEN "not-found"
       ELSE IF status = 409 THEN "conflict"
       ELSE IF status = 500 THEN "server-error"
       ELSE IF status # NoStatus THEN "passthrough"
       ELSE IF error.code = "ECONNREFUSED" THEN "connection-refused"
       ELSE IF error.code = "ENOTFOUND" THEN "host-not-found"
       ELSE "other"

\* a call of one of the operations that ended on a failed request raised the
\* error kind the specification assigns to the failure; a passthrough carries
\* the server-provided message
FailureMappedByStatus(ops) ==
    (call.op \in ops /\ pc = "done" /\ RequestFailed) =>
        LET error == locals.outcome.error
            expected == ExpectedKind(error)
        IN /\ result.state = "error"
           /\ expected # "other" => ErrorKind(result.error) = expected
           /\ expected = "passthrough" =>
                  Elements(OriginalMessage(error.response))
                      \subseteq Elements(result.error.message)

\* C12: for all dispatch calls, database and schema alike, a failed request
\* is mapped to an error kind by HTTP status: 400 invalid-request, 401
\* unauthorized, 403 forbidden, 404 not-found, 409 conflict, 500 server-error,
\* any other status a passthrough carrying the server-provided message; a
\* connection-refused and a host-not-found failure each yield a kind of their
\* own.
C12_FailureMappedByStatus == FailureMappedByStatus(DispatchOps)

(***************************************************************************)
(* Properties of the product-specific strategies (checked under Spec)      *)
(***************************************************************************)
\* a call of the operation under the strategy has returned to its caller
ReturnedFrom(op, strat) ==
    /\ call.op = op
    /\ Strategy(config.type) = strat
    /\ pc = "done"
    /\ result.state = "ok"

\* the buckets of a listing that are not system buckets, in the listing's order
UserBuckets(buckets) == SelectSeq(buckets, LAMBDA b : b.type # "system")

\* C13: listing databases under CloudServerless returns exactly one canonical
\* database per bucket whose type is not "system", in the backend's order and
\* with the bucket's name, and none for a system bucket; the retention of each
\* is the bucket's retentionRules[0].everySeconds times 1,000,000,000.
C13_ServerlessListFiltersAndConverts ==
    (ReturnedFrom("listDatabases", "serverless") /\ config.type = CloudServerless) =>
        LET user == UserBuckets(locals.data.buckets)
            items == result.value.items
        IN /\ Len(items) = Len(user)
           /\ \A i \in 1..Len(user) :
                  /\ items[i].name = user[i].name
                  /\ (user[i].hasRules /\ user[i].retentionRules # <<>>) =>
                         items[i].retentionPeriod
                             = <<SecondsToNanos(user[i].retentionRules[1].everySeconds)>>

\* the numeric fields of a CloudDedicated database and the defaults of create
NumericFields == {"maxTables", "maxColumnsPerTable", "retentionPeriod"}

CreateDefault(field) ==
    IF field = "maxTables" THEN 500
    ELSE IF field = "maxColumnsPerTable" THEN 200
    ELSE Nanos(0, 0)

\* the caller supplied the field in the config of the call
Supplied(k, field) == k.cfg.present /\ k.cfg[field] # NoNumber

\* C14: creating a CloudDedicated database sends a payload of name,
\* maxTables, maxColumnsPerTable and retentionPeriod, where each numeric field
\* is the caller's value whenever the caller supplied it (the value 0
\* included) and its default (500, 200, 0) only when the caller omitted it;
\* with no config at all the payload carries the three defaults.
C14_DedicatedCreateDefaults ==
    (call.op = "createDatabase" /\ Strategy(config.type) = "dedicated" /\ log # <<>>) =>
        LET payload == log[1].body
        IN /\ Len(log) = 1
           /\ log[1].verb = "post"
           /\ DOMAIN payload = {"name"} \cup NumericFields
           /\ payload.name = call.name
           /\ \A f \in NumericFields :
                  payload[f] = IF Supplied(call, f) THEN call.cfg[f][1]
                               ELSE CreateDefault(f)
           /\ ~call.cfg.present =>
                  /\ payload.maxTables = 500
                  /\ payload.maxColumnsPerTable = 200
                  /\ payload.retentionPeriod = Nanos(0, 0)

\* C14 witness: a CloudDedicated create with maxTables 0 supplied and
\* maxColumnsPerTable omitted has sent maxTables 0 and maxColumnsPerTable 200.
C14_Witness ==
    /\ call.op = "createDatabase"
    /\ config.type = CloudDedicated
    /\ Supplied(call, "maxTables")
    /\ call.cfg.maxTables = <<0>>
    /\ ~Supplied(call, "maxColumnsPerTable")
    /\ log # <<>>
    /\ log[1].body.maxTables = 0
    /\ log[1].body.maxColumnsPerTable = 200

\* an organization lookup answered with at least one organization
HasOrganization(data) == data.kind = "orgs" /\ data.hasOrgs /\ Len(data.orgs) > 0

\* C15: creating a CloudServerless database first issues the organization
\* lookup and only afterwards the bucket-create request, which carries the
\* organization id that lookup returned; when the lookup returns no
\* organization the operation raises and no create request is ever sent.
C15_OrganizationLookupBeforeCreate ==
    (call.op = "createDatabase" /\ config.type = CloudServerless) =>
        /\ log # <<>> => (log[1].verb = "get" /\ log[1].path = OrgsPath)
        /\ \A i \in 1..Len(log) : log[i].verb = "post" => i = 2
        /\ pending # NoRequest /\ pending.verb = "post" =>
               /\ pending.path = BucketsPath
               /\ HasOrganization(locals.data)
               /\ pending.body.orgID = locals.data.orgs[1].id
        /\ (pc = "done" /\ locals.data.kind = "orgs" /\ ~HasOrganization(locals.data)) =>
               /\ result.state = "error"
               /\ Len(log) = 1

\* C15 witness: a CloudServerless create has sent its bucket-create request
\* with the organization id o1 of the lookup.
C15_Witness ==
    /\ call.op = "createDatabase"
    /\ config.type = CloudServerless
    /\ Len(log) = 2
    /\ pending # NoRequest
    /\ pending.verb = "post"
    /\ pending.body.orgID = <<"o1">>
    /\ HasOrganization(locals.data)

\* C16: in the CloudServerless create payload the single retention rule's
\* everySeconds is the caller's nanosecond retention divided by 1,000,000,000
\* and rounded down whenever the caller supplied a retention, and the 30-day
\* default 2,592,000 only when the caller left the retention unset.
C16_ServerlessCreateRetention ==
    (call.op = "createDatabase" /\ config.type = CloudServerless
     /\ pending # NoRequest /\ pending.verb = "post") =>
        LET rules == pending.body.retentionRules
        IN /\ Len(rules) = 1
           /\ rules[1].type = "expire"
           /\ rules[1].everySeconds
                  = IF Supplied(call, "retentionPeriod")
                    THEN NanosToSeconds(call.cfg.retentionPeriod[1])
                    ELSE DefaultRetentionSeconds

(***************************************************************************)
(* Properties of the retention conversions (checked under SpecRet)         *)
(***************************************************************************)
\* C17: retention round trip for CloudServerless: converting a canonical
\* nanosecond retention to create-payload seconds and reading that seconds
\* value back through the list conversion yields the original retention for
\* every whole-second retention, and the composed conversion is idempotent:
\* applied a second time it gives the value it gave the first time.
C17_RetentionRoundTrip ==
    LET retention == call.cfg.retentionPeriod
    IN /\ (probe.fn = "roundTrip" /\ retention # NoNumber /\ retention[1].ns = 0) =>
              probe.out = retention
       /\ probe.fn = "roundTripTwice" => probe.out = RetentionRoundTrip(retention)

(***************************************************************************)
(* Properties of update and delete (checked under Spec)                    *)
(***************************************************************************)
\* the numeric fields the caller supplied in the config of the call
ProvidedFields(k) == {f \in NumericFields : Supplied(k, f)}

\* C18: updating a CloudDedicated database sends a patch whose fields are
\* exactly those of maxTables, maxColumnsPerTable and retentionPeriod that the
\* caller explicitly provided, with the caller's values and no default filled
\* in; when the caller provided none of them the operation raises and no
\* patch request is sent.
C18_DedicatedUpdateIsPartialPatch ==
    (call.op = "updateDatabase" /\ Strategy(config.type) = "dedicated") =>
        /\ Len(log) <= 1
        /\ \A i \in 1..Len(log) :
               /\ log[i].verb = "patch"
               /\ ProvidedFields(call) # {}
               /\ DOMAIN log[i].body = ProvidedFields(call)
               /\ \A f \in ProvidedFields(call) : log[i].body[f] = call.cfg[f][1]
        /\ (pc = "done" /\ ProvidedFields(call) = {}) =>
               (result.state = "error" /\ log = <<>>)

\* C18 witness: a CloudDedicated update with maxTables 0 and a retention
\* supplied has sent a patch of exactly these two fields.
C18_Witness ==
    /\ call.op = "updateDatabase"
    /\ config.type = CloudDedicated
    /\ ProvidedFields(call) = {"maxTables", "retentionPeriod"}
    /\ Len(log) = 1
    /\ DOMAIN log[1].body = {"maxTables", "retentionPeriod"}
    /\ log[1].body.maxTables = 0

\* the non-system buckets of a bucket listing that have the name
NamedBuckets(data, name) ==
    IF data.kind = "buckets"
    THEN SelectSeq(UserBuckets(data.buckets), LAMBDA b : b.name = name)
    ELSE <<>>

\* the call has ended on a bucket listing without a non-system bucket of the
\* name: it raised not-found after the listing request alone
NotFoundAfterListing ==
    (pc = "done" /\ locals.data.kind = "buckets"
     /\ NamedBuckets(locals.data, call.name) = <<>>) =>
        /\ result.state = "error"
        /\ "not found" \in Elements(result.error.message)
        /\ Len(log) = 1

\* C19: updating a CloudServerless database looks the bucket up by name first
\* and then sends a patch that always contains a non-empty retentionRules
\* array: the caller's retention converted to seconds when the caller
\* provided one, otherwise the rules the lookup returned for the bucket,
\* otherwise (no existing rules) a single 30-day rule of 2,592,000 seconds;
\* when no non-system bucket has the name it raises not-found and sends no
\* patch.
C19_ServerlessUpdateKeepsRetentionRules ==
    (call.op = "updateDatabase" /\ config.type = CloudServerless) =>
        /\ log # <<>> => (log[1].verb = "get" /\ log[1].path = BucketsPath)
        /\ \A i \in 1..Len(log) : log[i].verb = "patch" => i = 2
        /\ pending # NoRequest /\ pending.verb = "patch" =>
               LET hits == NamedBuckets(locals.data, call.name)
                   rules == pending.body.retentionRules
               IN /\ hits # <<>>
                  /\ pending.path = BucketsPath \o <<"/">> \o hits[1].id
                  /\ rules # <<>>
                  /\ rules = IF Supplied(call, "retentionPeriod")
                             THEN <<ExpireRule(NanosToSeconds(call.cfg.retentionPeriod[1]))>>
                             ELSE IF hits[1].hasRules /\ hits[1].retentionRules # <<>>
                             THEN hits[1].retentionRules
                             ELSE <<ExpireRule(DefaultRetentionSeconds)>>
        /\ NotFoundAfterListing

\* C19 witness: a CloudServerless update without a retention has sent a patch
\* carrying the one-day rule the lookup returned for the bucket.
C19_Witness ==
    /\ call.op = "updateDatabase"
    /\ config.type = CloudServerless
    /\ ~Supplied(call, "retentionPeriod")
    /\ Len(log) = 2
    /\ pending # NoRequest
    /\ pending.verb = "patch"
    /\ pending.body.retentionRules = <<ExpireRule(86400)>>

\* C20: deleting a CloudServerless database first lists the buckets and then
\* sends a delete addressed by the id of the non-system bucket of the
\* requested name, as that listing returned it; when the listing holds no
\* such bucket the operation raises not-found and no delete request is sent.
C20_ServerlessDeleteById ==
    (call.op = "deleteDatabase" /\ config.type = CloudServerless) =>
        /\ log # <<>> => (log[1].verb = "get" /\ log[1].path = BucketsPath)
        /\ \A i \in 1..Len(log) : log[i].verb = "delete" => i = 2
        /\ pending # NoRequest /\ pending.verb = "delete" =>
               LET hits == NamedBuckets(locals.data, call.name)
               IN /\ hits # <<>>
                  /\ pending.path = BucketsPath \o <<"/">> \o hits[1].id
        /\ NotFoundAfterListing

\* C20 witness: a delete of "a" against a listing whose first bucket named
\* "a" is a system bucket has sent its delete to the user bucket b2.
C20_Witness ==
    /\ call.op = "deleteDatabase"
    /\ config.type = CloudServerless
    /\ call.name = <<"a">>
    /\ Len(log) = 2
    /\ pending # NoRequest
    /\ pending.verb = "delete"
    /\ locals.data.buckets[1].type = "system"
    /\ locals.data.buckets[1].name = <<"a">>
    /\ pending.path = BucketsPath \o <<"/", "b2">>

(***************************************************************************)
(* Properties of the schema operations (checked under Spec)                *)
(***************************************************************************)
\* C21: every schema operation (listSchemas, getSchema, createSchema,
\* updateSchema) raises and sends no network request whenever the active
\* product type is not CloudServerless, whichever credentials are configured.
C21_SchemaOperationsServerlessOnly ==
    (call.op \in SchemaOps /\ config.type # CloudServerless) =>
        /\ log = <<>>
        /\ pending = NoRequest
        /\ client = NoClient
        /\ pc \in {"validate", "done"}
        /\ pc = "done" => result.state = "error"
        /\ steps # <<>> => pc = "done"

\* C21 witness: listSchemas under Core with url and token configured has
\* ended with an error and an empty request log.
C21_Witness ==
    /\ call.op = "listSchemas"
    /\ config.type = Core
    /\ hasManagementCapabilities(config)
    /\ pc = "done"
    /\ result.state = "error"
    /\ log = <<>>

\* a path under /api/v2/buckets/{id}/schema/measurements
SchemaScoped(req) == "/schema/measurements" \in Elements(req.path)

\* the path of the measurement schemas of a bucket, as the backend defines it
SchemaPathOf(bucketId) ==
    <<"/api/v2/buckets/">> \o bucketId \o <<"/schema/measurements">>

IsPrefix(p, q) == Len(p) <= Len(q) /\ SubSeq(q, 1, Len(p)) = p

\* C22: in every schema operation each schema-scoped request (a path under
\* /api/v2/buckets/{id}/schema/measurements) is preceded, within the call, by
\* a bucket-list request and is addressed with the id of the non-system
\* bucket of the given name which that listing returned; without such a
\* bucket the operation raises not-found and sends no schema-scoped request.
C22_SchemaRequestsUseResolvedBucketId ==
    call.op \in SchemaOps =>
        /\ log # <<>> =>
               (log[1].verb = "get" /\ log[1].path = BucketsPath /\ ~SchemaScoped(log[1]))
        /\ \A i \in 2..Len(log) :
               /\ SchemaScoped(log[i])
               /\ IsPrefix(log[2].path, log[i].path)
        /\ (pending # NoRequest /\ Len(log) = 2) =>
               LET hits == NamedBuckets(locals.data, call.name)
               IN /\ hits # <<>>
                  /\ pending.path = SchemaPathOf(hits[1].id)
        /\ NotFoundAfterListing

\* C22 witness: a getSchema call against a listing whose first bucket of the
\* name is a system bucket has sent its third request under the id b2 of the
\* user bucket.
C22_Witness ==
    /\ call.op = "getSchema"
    /\ Len(log) = 3
    /\ pending # NoRequest
    /\ locals.bucket.id = <<"b2">>
    /\ IsPrefix(SchemaPathOf(<<"b2">>), log[2].path)
    /\ IsPrefix(SchemaPathOf(<<"b2">>), log[3].path)
    /\ Len(log[3].path) > Len(log[2].path)

\* the columns the caller of updateSchema supplied (none when config.columns
\* is absent)
CallerColumns(k) == IF k.cfg.hasColumns THEN k.cfg.columns ELSE <<>>

\* the columns of the existing schema, as the measurement lookup returned it
ExistingColumns(data, schemaName) ==
    LET hits == SelectSeq(data.measurementSchemas, LAMBDA m : m.name = schemaName)
    IN IF hits = <<>> THEN <<>> ELSE hits[1].columns

\* C23: updateSchema does not merge on the caller's behalf: the columns of
\* the outgoing patch are exactly the caller-supplied columns in the caller's
\* order (an empty list when the caller supplies none); no column of the
\* existing schema read during the lookup is added to the payload and no
\* caller column is removed from it.  A column is its name and type, with
\* the data type of a field column.
C23_UpdateSchemaDoesNotMerge ==
    (call.op = "updateSchema" /\ pending # NoRequest /\ pending.verb = "patch") =>
        LET sent == pending.body.columns
            caller == CallerColumns(call)
        IN /\ DOMAIN pending.body = {"columns"}
           /\ Len(sent) = Len(caller)
           /\ \A i \in 1..Len(caller) :
                  /\ sent[i].name = caller[i].name
                  /\ sent[i].type = caller[i].type
                  /\ caller[i].type = "field" => sent[i].dataType = caller[i].dataType
           /\ \A i \in 1..Len(sent) :
                  \E j \in 1..Len(caller) : sent[i].name = caller[j].name

\* C23 witness: an updateSchema call that supplies the one column host, on a
\* schema whose existing column is time, has sent a patch of the column host
\* alone.
C23_Witness ==
    /\ call.op = "updateSchema"
    /\ pending # NoRequest
    /\ pending.verb = "patch"
    /\ Len(CallerColumns(call)) = 1
    /\ CallerColumns(call)[1].name = "host"
    /\ locals.data.kind = "measurements"
    /\ Len(ExistingColumns(locals.data, call.schemaName)) = 1
    /\ ExistingColumns(locals.data, call.schemaName)[1].name = "time"
    /\ Len(pending.body.columns) = 1
    /\ pending.body.columns[1].name = "host"

(***************************************************************************)
(* Properties of the capability errors (checked under SpecCap)             *)
(***************************************************************************)
FieldNames == {"url", "token", "management_token", "cluster_id", "account_id"}

\* the configuration fields an error message names
NamedFields(err) == Elements(err.message) \cap FieldNames

\* the required fields of a plane that the configuration lacks
MissingOf(c, required) == {f \in required : ~Present(c[f])}

\* the error of a failed validation names exactly the missing required fields
NamesExactlyMissing(fn, required) ==
    (probe.fn = fn /\ probe.out # NoError) =>
        NamedFields(probe.out) = MissingOf(config, required)

\* C26: when validateDataCapabilities or validateManagementCapabilities
\* fails, the raised error names exactly the required fields that are missing
\* for the active product type: every missing required field is named, and no
\* field that is present or not required is named.
C26_ErrorNamesExactlyMissingFields ==
    /\ NamesExactlyMissing("validateDataCapabilities", RequiredDataFields(config.type))
    /\ NamesExactlyMissing("validateManagementCapabilities",
                           RequiredManagementFields(config.type))

(***************************************************************************)
(* Properties of the requests and the credentials                          *)
(***************************************************************************)
\* the path prefix of the CloudDedicated / Clustered management API for the
\* configured account and cluster
AccountClusterPath(c) ==
    <<"/api/v0/accounts/">> \o c.account_id \o <<"/clusters/">> \o c.cluster_id
    \o <<"/databases">>

\* C27 (checked under Spec): every request a database or schema operation
\* sends is well-formed with respect to the configuration: its base host is
\* non-empty, it carries a non-empty credential, and every account id and
\* cluster id in its path is a value present in the configuration, for all
\* five product types and every configuration that passes capability
\* validation.
C27_RequestsWellFormed ==
    call.op \in DispatchOps =>
        \A i \in 1..Len(log) :
            /\ Present(log[i].host)
            /\ log[i].Authorization # Undefined
            /\ Len(log[i].Authorization) > 2
            /\ Strategy(config.type) = "dedicated" =>
                   /\ Present(config.account_id)
                   /\ Present(config.cluster_id)
                   /\ IsPrefix(AccountClusterPath(config), log[i].path)

\* the credential after the scheme of an Authorization header
CarriedToken(authorization) == SubSeq(authorization, 3, Len(authorization))

\* the client is a management client of CloudDedicated or Clustered
ManagementPlane(c, forManagement) ==
    forManagement /\ c.type \in {CloudDedicated, Clustered}

\* the credential of the client is the token of its plane, and a token of
\* the plane that is not blank is carried
CarriesOwnToken ==
    probe.fn = "getInfluxHttpClient" =>
        LET own == IF ManagementPlane(config, probe.forManagement)
                   THEN config.management_token ELSE config.token
        IN /\ probe.out.Authorization # Undefined =>
                  CarriedToken(probe.out.Authorization) = own
           /\ NonBlank(own) => probe.out.Authorization # Undefined

\* C28 (checked under SpecCap): credential-to-plane separation: a client
\* obtained for management under CloudDedicated or Clustered carries the
\* management token and never the data token; every other client carries the
\* data token and never the management token; so under CloudDedicated the
\* management token is only ever sent to the fixed console host and the data
\* token only to the cluster data host.
C28_CredentialPlaneSeparation ==
    /\ CarriesOwnToken
    /\ (probe.fn = "getInfluxHttpClient" /\ config.type = CloudDedicated
        /\ probe.out.Authorization # Undefined) =>
           IF probe.forManagement
           THEN probe.out.baseURL = ConsoleOrigin
           ELSE /\ Present(config.cluster_id)
                /\ probe.out.baseURL
                       = <<"https://">> \o config.cluster_id \o <<".a.influxdb.io">>

(***************************************************************************)
(* SpecConc: CloudServerless operations in flight at once on one backend   *)
(***************************************************************************)
\* the operations that can be in flight at once
Flights == {"f1", "f2"}

\* the calls made on the service in one behaviour
MaxCalls == 3

ConcCalls ==
    {Call("updateDatabase", <<"a">>, <<>>,
          DbCfg(NoNumber, NoNumber, <<Nanos(2, 0)>>, Undefined, Undefined)),
     Call("updateDatabase", <<"a">>, <<>>,
          DbCfg(NoNumber, NoNumber, NoNumber, Undefined, <<"d">>)),
     Call("updateDatabase", <<"a">>, <<>>,
          DbCfg(NoNumber, NoNumber, NoNumber, <<"z">>, Undefined)),
     Call("deleteDatabase", <<"a">>, <<>>, NoCfg),
     Call("createDatabase", <<"a">>, <<>>, NoCfg),
     Call("getSchema", <<"a">>, <<"cpu">>, NoCfg)}

\* the id the backend gives its n-th bucket
BucketId(n) ==
    <<"b", <<"0", "1", "2", "3", "4", "5", "6", "7", "8", "9">>[n + 1]>>

\* the buckets of the account when the service starts
InitialBackend ==
    [buckets |-> <<Bucket(BucketId(1), <<"a">>, "user", TRUE, <<ExpireRule(86400)>>),
                   Bucket(BucketId(0), <<"_monitoring">>, "system", FALSE, <<>>)>>,
     nextId |-> 2]

\* the measurement schemas of a bucket
MeasurementsOf(bucketId) ==
    IF bucketId = BucketId(1)
    THEN <<MeasurementSchema(<<"m2">>, <<"cpu">>,
                             <<Column("time", "timestamp", Undefined)>>)>>
    ELSE <<>>

Answer(data) == [ok |-> TRUE, data |-> data, error |-> NoError]

Refuse(status) ==
    [ok |-> FALSE, data |-> [kind |-> "none"],
     error |-> HttpFailure(status, <<"server says no">>)]

\* the position of the schema segment in a schema-scoped path
SchemaSegment(path) == CHOOSE i \in 1..Len(path) : path[i] = "/schema/measurements"

\* {bucketID} of /api/v2/buckets/{bucketID} and of
\* /api/v2/buckets/{bucketID}/schema/measurements[/{measurementID}]
PathBucketId(path) ==
    IF path[1] = "/api/v2/buckets/"
    THEN SubSeq(path, 2, SchemaSegment(path) - 1)
    ELSE SubSeq(path, 3, Len(path))

\* {measurementID} of .../schema/measurements/{measurementID}
PathMeasurementId(path) == SubSeq(path, SchemaSegment(path) + 2, Len(path))

BucketsOfId(b, id) == SelectSeq(b.buckets, LAMBDA x : x.id = id)

\* the backend serves a request: its state afterwards and the outcome of the call
Serve(b, req) ==
    IF req.verb = "get" /\ req.path = BucketsPath
    THEN [backend |-> b,
          outcome |-> Answer([kind |-> "buckets", envelope |-> "buckets",
                              buckets |-> b.buckets])]
    ELSE IF req.verb = "get" /\ req.path = OrgsPath
    THEN [backend |-> b,
          outcome |-> Answer([kind |-> "orgs", hasOrgs |-> TRUE,
                              orgs |-> <<[id |-> <<"o1">>]>>])]
    ELSE IF req.verb = "post"
    THEN IF \E i \in 1..Len(b.buckets) : b.buckets[i].name = req.body.name
         THEN [backend |-> b, outcome |-> Refuse(409)]
         ELSE [backend |->
                   [buckets |-> Append(b.buckets,
                                       Bucket(BucketId(b.nextId), req.body.name, "user",
                                              TRUE, req.body.retentionRules)),
                    nextId |-> b.nextId + 1],
               outcome |-> Answer([kind |-> "empty"])]
    ELSE IF req.verb = "get"
    THEN LET id == PathBucketId(req.path)
             all == MeasurementsOf(id)
             one == SelectSeq(all, LAMBDA m : m.id = PathMeasurementId(req.path))
         IN IF BucketsOfId(b, id) = <<>>
            THEN [backend |-> b, outcome |-> Refuse(404)]
            ELSE IF Len(req.path) = SchemaSegment(req.path)
            THEN [backend |-> b,
                  outcome |-> Answer([kind |-> "measurements", hasList |-> TRUE,
                                      measurementSchemas |-> all])]
            ELSE IF one = <<>>
            THEN [backend |-> b, outcome |-> Refuse(404)]
            ELSE [backend |-> b,
                  outcome |-> Answer([kind |-> "measurement", name |-> one[1].name,
                                      bucketID |-> id, hasColumns |-> TRUE,
                                      columns |-> one[1].columns])]
    ELSE LET id == PathBucketId(req.path)
         IN IF BucketsOfId(b, id) = <<>>
            THEN [backend |-> b, outcome |-> Refuse(404)]
            ELSE IF req.verb = "delete"
            THEN [backend |-> [b EXCEPT !.buckets = SelectSeq(@, LAMBDA x : x.id # id)],
                  outcome |-> Answer([kind |-> "empty"])]
            ELSE IF \E i \in 1..Len(b.buckets) : b.buckets[i].name = req.body.name
            THEN [backend |-> b, outcome |-> Refuse(409)]
            ELSE [backend |->
                      [b EXCEPT !.buckets =
                          [i \in 1..Len(@) |->
                              IF @[i].id # id THEN @[i]
                              ELSE Bucket(id,
                                          IF req.body.name # Undefined
                                          THEN req.body.name ELSE @[i].name,
                                          @[i].type, TRUE, req.body.retentionRules)]],
                  outcome |-> Answer([kind |-> "empty"])]

IdleFlight ==
    [pc |-> "idle", call |-> NoCall, stage |-> 1, locals |-> NoLocals,
     outstanding |-> <<>>, inbox |-> <<>>, log |-> <<>>, responses |-> <<>>,
     result |-> NoResult, before |-> [name |-> <<>>, id |-> Undefined]]

\* the request addresses a bucket by id
ById(req) == req.path \notin {BucketsPath, OrgsPath}

\* the bucket the requests of a finished call addressed by id: its name and
\* that id
UseOf(f) ==
    LET byId == SelectSeq(f.log, ById)
    IN IF byId = <<>> THEN [name |-> <<>>, id |-> Undefined]
       ELSE [name |-> f.call.name, id |-> PathBucketId(byId[Len(byId)].path)]

\* the first check of the entry point that throws, if any
ValidationError(k, c) ==
    LET failing == {i \in 1..Len(Validators(k.op)) :
                        RunValidator(Validators(k.op)[i], c, k) # NoError}
    IN IF failing = {} THEN NoError
       ELSE RunValidator(Validators(k.op)
                             [CHOOSE i \in failing : \A j \in failing : i <= j], c, k)

\* mutant: a call after one on the same bucket starts from the id that call kept
FirstStage_Cached(k, f) ==
    IF UseOf(f).name = k.name /\ f.locals.bucket.found
       /\ k.op \in {"updateDatabase", "deleteDatabase"}
       /\ f.call.op \in {"updateDatabase", "deleteDatabase"}
    THEN 2 ELSE 1

\* every strategy begins with its lookup request, whatever calls came before
FirstStage(k, f) == 1

\* mutant: the next request does not wait for the response of the previous one
Awaited_Parallel(f) == TRUE

\* await: the operation goes on once the request it sent has settled
Awaited(f) == f.outstanding = <<>>

ConcInit ==
    /\ config = [type |-> CloudServerless, url |-> <<"u">>, token |-> <<"t">>,
                 management_token |-> Undefined, cluster_id |-> Undefined,
                 account_id |-> Undefined]
    /\ probe = NoProbe
    /\ IdleCall
    /\ backend = InitialBackend
    /\ flights = [p \in Flights |-> IdleFlight]

\* a caller invokes an operation while others may be in flight: the entry
\* point validates, and its strategy starts with locals of its own
ConcInvoke(p) ==
    /\ flights[p].pc \in {"idle", "done"}
    /\ Len(steps) < MaxCalls
    /\ \E k \in ConcCalls :
         LET f == flights[p]
             err == ValidationError(k, config)
             first == FirstStage(k, f)
         IN flights' = [flights EXCEPT ![p] =
                [pc |-> IF err # NoError THEN "done" ELSE "running",
                 call |-> k,
                 stage |-> first,
                 locals |-> IF first = 1 THEN NoLocals ELSE f.locals,
                 outstanding |-> <<>>, inbox |-> <<>>, log |-> <<>>,
                 responses |-> <<>>,
                 result |-> IF err # NoError THEN Failed(err) ELSE NoResult,
                 before |-> UseOf(f)]]
    /\ steps' = Append(steps, "invoke")
    /\ UNCHANGED <<backend, config, probe, pc, call, vi, client, stage, locals,
                   pending, log, result>>

\* the strategy builds the request of its stage with a client of its own and
\* sends it
ConcSend(p) ==
    /\ flights[p].pc = "running"
    /\ Awaited(flights[p])
    /\ Len(flights[p].outstanding) < 2
    /\ LET f == flights[p]
           strat == Strategy(config.type)
           http == getInfluxHttpClient(config, ForManagement(f.call.op, strat))
           err == BeforeSend(f.call, strat, f.stage)
           req == BuildRequest(f.call, config, strat, f.stage, f.locals)
           sent == [verb |-> req.verb, host |-> http.baseURL, path |-> req.path,
                    Authorization |-> http.Authorization,
                    Connection |-> IF req.verb = "delete" THEN <<"close">> ELSE Undefined,
                    body |-> req.body]
       IN flights' = [flights EXCEPT ![p] =
              IF err # NoError
              THEN [f EXCEPT !.pc = "done", !.result = Catch(f.call, err)]
              ELSE [f EXCEPT !.outstanding = Append(@, sent), !.log = Append(@, sent)]]
    /\ UNCHANGED <<backend, config, probe, callVars>>

\* the backend serves the outstanding request of an operation, or the request
\* fails on the way and changes nothing
ConcServe(p) ==
    /\ Len(flights[p].inbox) < Len(flights[p].outstanding)
    /\ LET req == flights[p].outstanding[Len(flights[p].inbox) + 1]
       IN \E served \in {Serve(backend, req), [backend |-> backend, outcome |-> Refuse(503)]} :
            /\ backend' = served.backend
            /\ flights' = [flights EXCEPT ![p].inbox = Append(@, served.outcome)]
    /\ UNCHANGED <<config, probe, callVars>>

\* the awaited request settles and the strategy goes on: a lookup keeps its
\* ids, the last response is normalised into the result
ConcReceive(p) ==
    /\ flights[p].inbox # <<>>
    /\ LET f == flights[p]
           strat == Strategy(config.type)
           kind == RespKind(f.call, strat, f.stage)
           outcome == Head(f.inbox)
           r == CallVerb(Head(f.outstanding).verb, outcome)
           settled == [settled |-> TRUE, ok |-> outcome.ok, error |-> outcome.error]
           last == f.stage = NumStages(f.call.op, strat)
           look == IF last \/ r.threw THEN [error |-> NoError, locals |-> f.locals]
                   ELSE Lookup(f.call, kind, r.data, f.locals)
           n == Normalize(f.call, strat, r.data, f.locals)
           g == [f EXCEPT !.outstanding = Tail(@), !.inbox = Tail(@)]
       IN flights' = [flights EXCEPT ![p] =
              IF r.threw
              THEN [g EXCEPT !.pc = "done", !.result = Catch(f.call, r.error),
                             !.locals = [f.locals EXCEPT !.outcome = settled]]
              ELSE IF look.error # NoError
              THEN [g EXCEPT !.pc = "done", !.result = Catch(f.call, look.error),
                             !.responses = Append(@, r.data),
                             !.locals = [f.locals EXCEPT !.data = r.data,
                                                         !.outcome = settled]]
              ELSE IF last
              THEN [g EXCEPT !.pc = "done",
                             !.result = IF n.error # NoError THEN Catch(f.call, n.error)
                                        ELSE Returned(n.value),
                             !.responses = Append(@, r.data),
                             !.locals = [f.locals EXCEPT !.data = r.data,
                                                         !.outcome = settled]]
              ELSE [g EXCEPT !.stage = @ + 1,
                             !.responses = Append(@, r.data),
                             !.locals = [look.locals EXCEPT !.data = r.data,
                                                            !.outcome = settled]]]
    /\ UNCHANGED <<backend, config, probe, callVars>>

NextConc ==
    \E p \in Flights :
        \/ ConcInvoke(p)
        \/ ConcSend(p)
        \/ ConcServe(p)
        \/ ConcReceive(p)

SpecConc == ConcInit /\ [][NextConc]_vars

(***************************************************************************)
(* Properties of operations in flight at once                              *)
(***************************************************************************)
\* the request names a measurement schema by id
ByMeasurementId(req) ==
    SchemaScoped(req) /\ Len(req.path) > SchemaSegment(req.path)

\* the measurement schemas of a name in a schema listing
NamedSchemas(data, schemaName) ==
    IF data.kind = "measurements"
    THEN SelectSeq(data.measurementSchemas, LAMBDA m : m.name = schemaName)
    ELSE <<>>

\* C24 (checked under SpecConc): there is no caching across calls: every
\* operation that needs a bucket id, an organization id or a measurement id
\* issues its own lookup request in that call and uses the id that lookup
\* returned, never an id obtained in an earlier call; so when the backend's
\* name-to-id mapping has changed between two calls the second call uses the
\* new id.
C24_NoCachingAcrossCalls ==
    \A p \in Flights :
        LET f == flights[p]
        IN \A i \in 1..Len(f.log) :
            /\ ById(f.log[i]) =>
                   /\ i > 1
                   /\ f.log[1].verb = "get" /\ f.log[1].path = BucketsPath
                   /\ Len(f.responses) >= 1
                   /\ NamedBuckets(f.responses[1], f.call.name) # <<>>
                   /\ PathBucketId(f.log[i].path)
                          = NamedBuckets(f.responses[1], f.call.name)[1].id
            /\ f.log[i].verb = "post" =>
                   /\ i = 2
                   /\ f.log[1].verb = "get" /\ f.log[1].path = OrgsPath
                   /\ Len(f.responses) >= 1
                   /\ HasOrganization(f.responses[1])
                   /\ f.log[i].body.orgID = f.responses[1].orgs[1].id
            /\ ByMeasurementId(f.log[i]) =>
                   /\ i = 3
                   /\ f.log[2].verb = "get" /\ ~ByMeasurementId(f.log[2])
                   /\ Len(f.responses) >= 2
                   /\ NamedSchemas(f.responses[2], f.call.schemaName) # <<>>
                   /\ PathMeasurementId(f.log[i].path)
                          = NamedSchemas(f.responses[2], f.call.schemaName)[1].id

\* an operation addresses the bucket of a name by another id than its
\* previous call on that name did
C24_Witness ==
    \E p \in Flights :
        LET f == flights[p]
        IN /\ f.before.id # Undefined
           /\ f.before.name = f.call.name
           /\ f.log # <<>>
           /\ ById(f.log[Len(f.log)])
           /\ PathBucketId(f.log[Len(f.log)].path) # f.before.id

\* C25 (checked under SpecConc): each operation is a strictly sequential
\* chain of requests: an operation in flight has at most one outstanding
\* request at every moment, it sends its next request only after the response
\* of the previous one arrived, and with several operations in flight no
\* step writes the shared configuration or the state of another operation.
C25_SequentialChains ==
    /\ [](\A p \in Flights : Len(flights[p].outstanding) <= 1)
    /\ [][/\ config' = config
          /\ \A p \in Flights :
                 (flights'[p].log # flights[p].log /\ flights'[p].log # <<>>) =>
                     flights[p].outstanding = <<>>
          /\ \A p, q \in Flights :
                 (p # q /\ flights'[p] # flights[p]) => flights'[q] = flights[q]]_vars

\* two operations are in flight, each with a request outstanding, one of them
\* its second
C25_Witness ==
    \E p, q \in Flights :
        /\ p # q
        /\ flights[p].pc = "running" /\ flights[q].pc = "running"
        /\ Len(flights[p].outstanding) = 1 /\ Len(flights[q].outstanding) = 1
        /\ Len(flights[p].log) = 2

\* the backend applies the outstanding request of an operation in this step
Applied(p) ==
    /\ Len(flights'[p].inbox) > Len(flights[p].inbox)
    /\ flights'[p].inbox[Len(flights'[p].inbox)].ok

\* the request the backend serves next for an operation
ServedRequest(p) == flights[p].outstanding[Len(flights[p].inbox) + 1]

\* C29 (checked under SpecConc): under any interleaving of CloudServerless
\* operations in flight on the same backend, an updateDatabase call that
\* supplies no retentionPeriod never changes the retention rules of the
\* bucket: the rules after its patch equal the rules the bucket had
\* immediately before the patch.
C29_UpdateKeepsConcurrentRetention ==
    [][\A p \in Flights :
           (/\ Applied(p)
            /\ flights[p].call.op = "updateDatabase"
            /\ flights[p].call.cfg.retentionPeriod = NoNumber
            /\ ServedRequest(p).verb = "patch") =>
               LET id == PathBucketId(ServedRequest(p).path)
               IN BucketsOfId(backend', id)[1].retentionRules
                      = BucketsOfId(backend, id)[1].retentionRules]_vars

\* C30 (checked under SpecConc): under any interleaving of CloudServerless
\* operations in flight on the same backend, deleteDatabase(name) never
\* deletes a bucket whose name, at the moment the delete request is applied,
\* differs from name.
C30_DeleteOnlyTheNamedBucket ==
    [][\A p \in Flights :
           (/\ Applied(p)
            /\ flights[p].call.op = "deleteDatabase"
            /\ ServedRequest(p).verb = "delete") =>
               BucketsOfId(backend, PathBucketId(ServedRequest(p).path))[1].name
                   = flights[p].call.name]_vars

====
